---- MODULE Spec2Model ----
(***************************************************************************)
(* State-machine model of the GRBL machine-state tracker (MachineState),   *)
(* its constants (grbl.ts), the line tokenizer (gcodeParser.ts) and the    *)
(* transport's writeCommand / beginReading pair (main.ts).                 *)
(*                                                                         *)
(* Numbers.  JavaScript numbers are modelled as fixed-point integers: the  *)
(* integer n stands for the number n / Scale.  NaN and undefined are two   *)
(* reserved integers outside the range any run reaches; every arithmetic   *)
(* operator below propagates NaN as IEEE arithmetic does, and every        *)
(* comparison with NaN is false.                                           *)
(***************************************************************************)
EXTENDS Integers, Sequences, FiniteSets, TLC

(* ------------------------------ bounds -------------------------------- *)
\* fixed-point denominator of the number representation
Scale == 2
\* the ledger holds at most this many unacknowledged lines in a run
MaxLedger == 2
\* the motion command queue holds at most this many commands in a run
MaxQueue == 2
\* at most this many timeouts are pending at once in a run
MaxTimers == 2
\* |Position component| stays within this many fixed-point units in a run
MaxPos == 3
\* the transport's overflow commandQueue holds at most this many commands
MaxCommandQueue == 1
\* at most this many writeCommand calls await the serial port at once
MaxPortWrites == 1
\* the points given to arcAngle have whole coordinates within this many units
MaxCoord == 2

(* ---------------------------- grbl.ts --------------------------------- *)
CANCEL_JOG_COMMAND == 133
STATUS_REPORT_QUERY_COMMAND == 63
REALTIME_COMMANDS == {STATUS_REPORT_QUERY_COMMAND, CANCEL_JOG_COMMAND}
CHAR_BUFFER_LIMIT == 128
OK_MESSAGE == "ok"
ERROR_MESSAGE == "error"
JOG_COMMAND_PREFIX == "$J="
SIMULATION_UPDATE_INTERVAL_MS == 25

DistanceModes == {"Abs", "Inc"}
MotionModes == {"Rapid", "Linear", "ClockwiseArc", "CounterClockwiseArc"}
UnitModes == {"Inch", "Milimeter"}
States == {"Idle", "Alarm", "CheckMode", "Homing", "Cycle", "Hold", "Jog",
           "SafetyDoor", "Sleep"}

(* ---------------------------- numbers --------------------------------- *)
NaN == 0 - 999999
Undefined == 0 - 999998

IsNaN(a) == a = NaN
\* a value used in arithmetic: undefined converts to NaN
ToNumber(a) == IF a = Undefined THEN NaN ELSE a
Abs(a) == IF a < 0 THEN 0 - a ELSE a
\* integer division rounding toward zero
Quot(a, b) == IF (a < 0) = (b < 0) THEN Abs(a) \div Abs(b)
              ELSE 0 - (Abs(a) \div Abs(b))
NAdd(a, b) == IF IsNaN(ToNumber(a)) \/ IsNaN(ToNumber(b)) THEN NaN ELSE a + b
NSub(a, b) == IF IsNaN(ToNumber(a)) \/ IsNaN(ToNumber(b)) THEN NaN ELSE a - b
NLt(a, b) == ~IsNaN(ToNumber(a)) /\ ~IsNaN(ToNumber(b)) /\ a < b
NGt(a, b) == NLt(b, a)

RECURSIVE SqrtFrom(_, _)
SqrtFrom(n, r) == IF (r + 1) * (r + 1) > n THEN r ELSE SqrtFrom(n, r + 1)
\* Math.sqrt on a non-negative fixed-point square (floor)
ISqrt(n) == SqrtFrom(n, 0)
\* Math.sqrt(a ** 2 + b ** 2 + c ** 2) of fixed-point numbers
Norm3(a, b, c) ==
    IF IsNaN(ToNumber(a)) \/ IsNaN(ToNumber(b)) \/ IsNaN(ToNumber(c)) THEN NaN
    ELSE ISqrt(a * a + b * b + c * c)

(* ---------------------- arc quantities, mathUtil.ts -------------------- *)
\* Lengths, angles and ratios of the arc code are kept in thousandths (of a
\* unit, of a radian, of one); Position itself stays in Scale-ths.
Milli == 1000
PI == 3142
HalfPI == PI \div 2
TwoPI == 2 * PI

IsNum(a) == ~IsNaN(ToNumber(a))
\* division rounding to the nearest integer, b > 0
RoundDiv(a, b) == IF a >= 0 THEN (2 * a + b) \div (2 * b)
                  ELSE 0 - ((2 * (0 - a) + b) \div (2 * b))
\* a Position component in thousandths, and back
toMilli(v) == IF IsNum(v) THEN (v * Milli) \div Scale ELSE NaN
fromMilli(m) == IF IsNum(m) THEN RoundDiv(m * Scale, Milli) ELSE NaN

RECURSIVE SqrtIn(_, _, _)
SqrtIn(n, lo, hi) ==
    IF hi - lo <= 1 THEN lo
    ELSE LET mid == (lo + hi) \div 2
         IN IF mid * mid <= n THEN SqrtIn(n, mid, hi) ELSE SqrtIn(n, lo, mid)
\* Math.sqrt of a non-negative integer (floor), NaN of a negative one
BSqrt(n) == IF ~IsNum(n) \/ n < 0 THEN NaN ELSE SqrtIn(n, 0, 46341)
\* Math.sqrt(a ** 2 + b ** 2) of two numbers in thousandths
Norm2(a, b) == IF IsNum(a) /\ IsNum(b) THEN BSqrt(a * a + b * b) ELSE NaN

\* cosine and sine of an angle in [0, pi/2] by their power series
CosQ(r) ==
    LET x2 == (r * r) \div Milli
        x4 == (x2 * x2) \div Milli
        x6 == (x4 * x2) \div Milli
        x8 == (x6 * x2) \div Milli
    IN Milli - RoundDiv(x2, 2) + RoundDiv(x4, 24) - RoundDiv(x6, 720)
             + RoundDiv(x8, 40320)
SinQ(r) ==
    LET x2 == (r * r) \div Milli
        x3 == (x2 * r) \div Milli
        x5 == (x3 * x2) \div Milli
        x7 == (x5 * x2) \div Milli
        x9 == (x7 * x2) \div Milli
    IN r - RoundDiv(x3, 6) + RoundDiv(x5, 120) - RoundDiv(x7, 5040)
         + RoundDiv(x9, 362880)
\* Math.cos, Math.sin: exact at the multiples of pi/2
Cos(a) ==
    IF ~IsNum(a) THEN NaN
    ELSE LET m == a % TwoPI
             q == m \div HalfPI
             r == m % HalfPI
         IN CASE q = 0 -> CosQ(r) [] q = 1 -> 0 - SinQ(r)
              [] q = 2 -> 0 - CosQ(r) [] OTHER -> SinQ(r)
Sin(a) ==
    IF ~IsNum(a) THEN NaN
    ELSE LET m == a % TwoPI
             q == m \div HalfPI
             r == m % HalfPI
         IN CASE q = 0 -> SinQ(r) [] q = 1 -> CosQ(r)
              [] q = 2 -> 0 - SinQ(r) [] OTHER -> 0 - CosQ(r)

\* the angle in [lo, hi) within [0, pi/2] whose tangent is y / x (x, y > 0)
RECURSIVE AtanIn(_, _, _, _)
AtanIn(y, x, lo, hi) ==
    IF hi - lo <= 1 THEN lo
    ELSE LET mid == (lo + hi) \div 2
         IN IF x * SinQ(mid) <= y * CosQ(mid) THEN AtanIn(y, x, mid, hi)
            ELSE AtanIn(y, x, lo, mid)
\* Math.atan2(y, x), in (-pi, pi]
Atan2(y, x) ==
    IF ~IsNum(y) \/ ~IsNum(x) THEN NaN
    ELSE LET q == IF x = 0 THEN (IF y = 0 THEN 0 ELSE HalfPI)
                  ELSE IF y = 0 THEN 0
                  ELSE AtanIn(Abs(y), Abs(x), 0, HalfPI + 1)
         IN IF x >= 0 THEN (IF y >= 0 THEN q ELSE 0 - q)
            ELSE (IF y >= 0 THEN PI - q ELSE q - PI)

\* the least angle in (lo, hi] within [0, pi] whose cosine is at most c
RECURSIVE AcosIn(_, _, _)
AcosIn(c, lo, hi) ==
    IF hi - lo <= 1 THEN hi
    ELSE LET mid == (lo + hi) \div 2
         IN IF Cos(mid) <= c THEN AcosIn(c, lo, mid) ELSE AcosIn(c, mid, hi)
\* Math.acos of a ratio in thousandths: NaN outside [-1, 1], exact at -1, 1
Acos(c) ==
    IF ~IsNum(c) \/ c > Milli \/ c < 0 - Milli THEN NaN
    ELSE IF c = Milli THEN 0
    ELSE IF c = 0 - Milli THEN PI ELSE AcosIn(c, 0, PI)

NMul(a, b) == IF IsNum(a) /\ IsNum(b) THEN a * b ELSE NaN
\* a === b on numbers: NaN equals nothing
NEq(a, b) == IsNum(a) /\ IsNum(b) /\ a = b

dotProduct2D(vecA, vecB) ==
    NAdd(NMul(vecA.x, vecB.x), NMul(vecA.y, vecB.y))
crossProduct2D(vecA, vecB) ==
    NSub(NMul(vecA.x, vecB.y), NMul(vecA.y, vecB.x))

\* Math.PI * radius * 2
circumference(radius) ==
    IF IsNum(radius) THEN (PI * radius * 2) \div Milli ELSE NaN

\* dp / (startVecMag * endVecMag) in thousandths; the floors taken by the
\* two square roots can push the quotient just past 1, where the source's
\* quotient is not, so it is cut to [-1, 1]
cosineOf(dp, startVecMag, endVecMag) ==
    IF ~IsNum(dp) \/ ~IsNum(startVecMag) \/ ~IsNum(endVecMag) THEN NaN
    ELSE IF startVecMag = 0 \/ endVecMag = 0 THEN NaN
    ELSE LET c == Quot(Quot(dp, startVecMag) * Milli, endVecMag)
         IN IF c > Milli THEN Milli
            ELSE IF c < 0 - Milli THEN 0 - Milli ELSE c

\* variant: collinear vectors give a full turn, opposite or not
arcAngle_full(startPoint, endPoint, centerPoint) ==
    LET startVec == [x |-> NSub(startPoint.x, centerPoint.x),
                     y |-> NSub(startPoint.y, centerPoint.y)]
        startVecMag == Norm2(startVec.x, startVec.y)
        endVec == [x |-> NSub(endPoint.x, centerPoint.x),
                   y |-> NSub(endPoint.y, centerPoint.y)]
        endVecMag == Norm2(endVec.x, endVec.y)
        dp == dotProduct2D(startVec, endVec)
        cp == crossProduct2D(startVec, endVec)
    IN IF NLt(cp, 0) THEN Acos(cosineOf(dp, startVecMag, endVecMag))
       ELSE IF NGt(cp, 0)
       THEN NAdd(PI, Acos(cosineOf(dp, startVecMag, endVecMag)))
       ELSE PI * 2

\* points in thousandths, the angle in thousandths of a radian
arcAngle(startPoint, endPoint, centerPoint) ==
    LET startVec == [x |-> NSub(startPoint.x, centerPoint.x),
                     y |-> NSub(startPoint.y, centerPoint.y)]
        startVecMag == Norm2(startVec.x, startVec.y)
        endVec == [x |-> NSub(endPoint.x, centerPoint.x),
                   y |-> NSub(endPoint.y, centerPoint.y)]
        endVecMag == Norm2(endVec.x, endVec.y)
        dp == dotProduct2D(startVec, endVec)
        cp == crossProduct2D(startVec, endVec)
    IN IF NLt(cp, 0) THEN Acos(cosineOf(dp, startVecMag, endVecMag))
       ELSE IF NGt(cp, 0)
       THEN NAdd(PI, Acos(cosineOf(dp, startVecMag, endVecMag)))
       ELSE IF NEq(startVec.x, endVec.x) /\ NEq(startVec.y, endVec.y)
       THEN PI * 2 ELSE PI

arcLength(startPoint, endPoint, centerPoint) ==
    LET radius == Norm2(NSub(startPoint.x, centerPoint.x),
                        NSub(startPoint.y, centerPoint.y))
    IN IF NEq(startPoint.x, endPoint.x) /\ NEq(startPoint.y, endPoint.y)
       THEN circumference(radius)
       ELSE LET angle == arcAngle(startPoint, endPoint, centerPoint)
            IN IF IsNum(angle) /\ IsNum(radius)
               THEN (angle * circumference(radius)) \div (PI * 2)
               ELSE NaN

(* -------------------------- gcodeParser.ts ----------------------------- *)
\* A command word as it stands in the text: its first character and the
\* text after it, given by sign, integer digits, "." and fraction digits
\* (fp in thousandths); ok = FALSE when no number starts the text.
Lexeme(neg, ip, dot, fp) == [ok |-> TRUE, neg |-> neg, ip |-> ip, dot |-> dot, fp |-> fp]
NoNumber == [ok |-> FALSE, neg |-> FALSE, ip |-> 0, dot |-> FALSE, fp |-> 0]
RawWord(letter, lex) == [letter |-> letter, lex |-> lex]

parseInt(lex) ==
    IF ~lex.ok THEN NaN
    ELSE IF lex.neg THEN 0 - lex.ip * Scale ELSE lex.ip * Scale
parseFloat(lex) ==
    IF ~lex.ok THEN NaN
    ELSE LET mag == lex.ip * Scale + (lex.fp * Scale) \div 1000
         IN IF lex.neg THEN 0 - mag ELSE mag

tokenizeWord(w) ==
    <<w.letter, IF ~w.lex.dot THEN parseInt(w.lex) ELSE parseFloat(w.lex)>>

\* parseCommand: the words of the text with comments removed, tokenized
parseCommand(rawWords) == [i \in 1..Len(rawWords) |-> tokenizeWord(rawWords[i])]

(* --------------------------- commands ---------------------------------- *)
\* A command (Uint8Array) is given by its first byte, its byte length, the
\* prefix its decoded text starts with ("$J=", "$" or neither) and the words
\* of the text that parseCommand is applied to (for a jog: of the text after
\* the three-character prefix).
Command(first, len, prefix, words) ==
    [first |-> first, len |-> len, prefix |-> prefix, words |-> words]

\* commandText.startsWith("$")
startsWithDollar(command) == command.prefix \in {"$", JOG_COMMAND_PREFIX}
\* commandText.startsWith(GRBL.JOG_COMMAND_PREFIX)
startsWithJogPrefix(command) == command.prefix = JOG_COMMAND_PREFIX

\* variant: the cancel-jog byte was left out of the recognized set
isRealtimeCommand_queryOnly(command) ==
    command.len = 1 /\ command.first = STATUS_REPORT_QUERY_COMMAND

isRealtimeCommand(command) ==
    command.len = 1 /\ command.first \in REALTIME_COMMANDS

(* ------------------------- MachineState -------------------------------- *)
\* ms is the tracker object: its fields are the fields of MachineState
\* (pos, feedrate, distanceMode, arcCenterDistanceMode, unitMode, motionMode,
\* state, #bufferLineCharCounts, #numOfCharsInBuffer, #simulationTimeoutId,
\* #jogSimulationTimeoutId, #motionSimulationEnabled, #inMotion,
\* #motionCommandQueue) and timers, the setTimeout callbacks pending for it.
VARIABLES ms,
          commandQueue,  \* main.ts: commands waiting for buffer space
          portWrites,    \* main.ts: writeCommand calls awaiting the port
          lastOp,        \* history: the handler that ran last, its argument
          sentUnacked    \* history: lines the caller sent, not yet answered

vars == <<ms, commandQueue, portWrites, lastOp, sentUnacked>>
transportVars == <<commandQueue, portWrites>>

constructor ==
    [pos |-> [x |-> 0, y |-> 0, z |-> 0], feedrate |-> Undefined,
     distanceMode |-> "Abs", arcCenterDistanceMode |-> "Inc",
     unitMode |-> "Milimeter", motionMode |-> "Linear", state |-> "Idle",
     bufferLineCharCounts |-> <<>>, numOfCharsInBuffer |-> 0,
     simulationTimeoutId |-> Undefined, jogSimulationTimeoutId |-> Undefined,
     motionSimulationEnabled |-> FALSE, inMotion |-> FALSE,
     motionCommandQueue |-> <<>>, timers |-> {}]

\* variant: the comparison with the limit is strict
commandWillOverflowBuffer_strict(s, command) ==
    ~isRealtimeCommand(command)
    /\ (s.numOfCharsInBuffer + command.len) > CHAR_BUFFER_LIMIT

commandWillOverflowBuffer(s, command) ==
    ~isRealtimeCommand(command)
    /\ (s.numOfCharsInBuffer + command.len) >= CHAR_BUFFER_LIMIT

pushBufferLine(s, command) ==
    [s EXCEPT !.numOfCharsInBuffer = @ + command.len,
              !.bufferLineCharCounts = Append(@, command.len)]

\* variant: the count subtracted is the first entry's, the entry removed
\* the last
popBufferLine_first(s) ==
    LET n == Len(s.bufferLineCharCounts)
    IN IF n = 0 THEN s
       ELSE [s EXCEPT !.numOfCharsInBuffer = @ - s.bufferLineCharCounts[1],
                      !.bufferLineCharCounts = SubSeq(@, 1, n - 1)]

\* Array.prototype.pop removes and returns the last element
popBufferLine(s) ==
    LET n == Len(s.bufferLineCharCounts)
    IN IF n = 0 THEN [s EXCEPT !.numOfCharsInBuffer = @ - 0]
       ELSE [s EXCEPT !.numOfCharsInBuffer = @ - s.bufferLineCharCounts[n],
                      !.bufferLineCharCounts = SubSeq(@, 1, n - 1)]

(* -------------------------- messages ----------------------------------- *)
\* A message is given by what its text starts with ("ok", "error" or
\* neither), whether STATUS_REPORT_REGEX matches it, the first match of
\* STATUS_REPORT_STATE_REGEX in it ("" when none) and the matches of
\* STATUS_REPORT_POS_REGEX in it, each a triple of coordinate lexemes.
Message(prefix, report, token, coords) ==
    [prefix |-> prefix, report |-> report, token |-> token, coords |-> coords]

\* variant: pos.z is read from the second coordinate
statusReportPosition_zFromY(s, m) ==
    IF Len(m.coords) > 0
    THEN [s EXCEPT !.pos = [x |-> parseFloat(m.coords[1][1]),
                            y |-> parseFloat(m.coords[1][2]),
                            z |-> parseFloat(m.coords[1][2])]]
    ELSE s

\* the first half of #registerStatusReport: the coordinates, when the
\* position pattern matches, overwrite pos
statusReportPosition(s, m) ==
    IF Len(m.coords) > 0
    THEN [s EXCEPT !.pos = [x |-> parseFloat(m.coords[1][1]),
                            y |-> parseFloat(m.coords[1][2]),
                            z |-> parseFloat(m.coords[1][3])]]
    ELSE s

\* variant: the Door token is not among the cases
registerStatusReport_noDoor(s, m) ==
    LET s1 == statusReportPosition(s, m)
    IN CASE m.token = "Idle" -> [s1 EXCEPT !.state = "Idle"]
         [] m.token = "Run" -> [s1 EXCEPT !.state = "Cycle"]
         [] m.token = "Hold" -> [s1 EXCEPT !.state = "Hold"]
         [] m.token = "Jog" -> [s1 EXCEPT !.state = "Jog"]
         [] m.token = "Home" -> [s1 EXCEPT !.state = "Homing"]
         [] m.token = "Alarm" -> [s1 EXCEPT !.state = "Alarm"]
         [] m.token = "Check" -> [s1 EXCEPT !.state = "CheckMode"]
         [] m.token = "Sleep" -> [s1 EXCEPT !.state = "Sleep"]
         [] OTHER -> s1

registerStatusReport(s, m) ==
    LET s1 == statusReportPosition(s, m)
    IN CASE m.token = "Idle" -> [s1 EXCEPT !.state = "Idle"]
         [] m.token = "Run" -> [s1 EXCEPT !.state = "Cycle"]
         [] m.token = "Hold" -> [s1 EXCEPT !.state = "Hold"]
         [] m.token = "Jog" -> [s1 EXCEPT !.state = "Jog"]
         [] m.token = "Home" -> [s1 EXCEPT !.state = "Homing"]
         [] m.token = "Alarm" -> [s1 EXCEPT !.state = "Alarm"]
         [] m.token = "Check" -> [s1 EXCEPT !.state = "CheckMode"]
         [] m.token = "Door" -> [s1 EXCEPT !.state = "SafetyDoor"]
         [] m.token = "Sleep" -> [s1 EXCEPT !.state = "Sleep"]
         [] OTHER -> s1

\* variant: a status report is taken for an answer as well
registerMessage_answer(s, m) ==
    IF m.prefix = OK_MESSAGE \/ m.prefix = ERROR_MESSAGE THEN popBufferLine(s)
    ELSE IF m.report THEN popBufferLine(registerStatusReport(s, m))
    ELSE s

registerMessage(s, m) ==
    IF m.prefix = OK_MESSAGE \/ m.prefix = ERROR_MESSAGE THEN popBufferLine(s)
    ELSE IF m.report THEN registerStatusReport(s, m)
    ELSE s

toggleMotionSimulation(s) ==
    LET s1 == IF s.motionSimulationEnabled
              THEN [s EXCEPT !.inMotion = FALSE,
                             !.motionCommandQueue = <<>>,
                             !.simulationTimeoutId = Undefined,
                             !.jogSimulationTimeoutId = Undefined]
              ELSE s
    IN [s1 EXCEPT !.motionSimulationEnabled = ~s.motionSimulationEnabled]

(* ----------------------- timeouts (event loop) ------------------------- *)
\* setTimeout returns an id no pending timeout and no stored handle holds
\* (ids are only ever compared for identity, so the least free one is used)
freshTimeoutId(s) ==
    LET used == {t.id : t \in s.timers}
                \cup {s.simulationTimeoutId, s.jogSimulationTimeoutId}
    IN CHOOSE i \in 1..(Cardinality(used) + 1) :
         i \notin used /\ \A j \in 1..(i - 1) : j \in used

\* clearTimeout(id)
clearTimeout(s, id) == [s EXCEPT !.timers = {t \in @ : t.id # id}]

setSimulationTimeoutId(s, timeoutId, isJog) ==
    IF isJog THEN [s EXCEPT !.jogSimulationTimeoutId = timeoutId]
    ELSE [s EXCEPT !.simulationTimeoutId = timeoutId]

\* variant: cancel-jog empties the whole queue
clearQueuedJogCommands_all(s) == [s EXCEPT !.motionCommandQueue = <<>>]

\* Removes all queued jog commands from motion command queue
clearQueuedJogCommands(s) ==
    [s EXCEPT !.motionCommandQueue =
        SelectSeq(@, LAMBDA command : ~startsWithJogPrefix(command))]

registerRealtimeCommand(s, command) ==
    IF command = CANCEL_JOG_COMMAND
    THEN LET s1 == IF s.jogSimulationTimeoutId # Undefined
                   THEN [clearTimeout([s EXCEPT !.inMotion = FALSE],
                                      s.jogSimulationTimeoutId)
                           EXCEPT !.jogSimulationTimeoutId = Undefined]
                   ELSE s
         IN clearQueuedJogCommands(s1)
    ELSE s

\* word.join("") of a G word is "G" followed by the number's decimal text:
\* gCode === "G<n>" holds exactly when the tokenized value is n
gCodeIs(value, n) == value = n * Scale

\* variant: G2 and G3 select each other's arc direction
registerGCode_swap(s, value) ==
    CASE gCodeIs(value, 0) -> [s EXCEPT !.motionMode = "Rapid"]
      [] gCodeIs(value, 1) -> [s EXCEPT !.motionMode = "Linear"]
      [] gCodeIs(value, 2) -> [s EXCEPT !.motionMode = "CounterClockwiseArc"]
      [] gCodeIs(value, 3) -> [s EXCEPT !.motionMode = "ClockwiseArc"]
      [] OTHER -> s

\* variant: a repeated G1 falls back to Rapid
registerGCode_flip(s, value) ==
    CASE gCodeIs(value, 0) -> [s EXCEPT !.motionMode = "Rapid"]
      [] gCodeIs(value, 1) ->
           [s EXCEPT !.motionMode = IF @ = "Linear" THEN "Rapid" ELSE "Linear"]
      [] gCodeIs(value, 2) -> [s EXCEPT !.motionMode = "ClockwiseArc"]
      [] gCodeIs(value, 3) -> [s EXCEPT !.motionMode = "CounterClockwiseArc"]
      [] OTHER -> s

registerGCode(s, value) ==
    CASE gCodeIs(value, 0) -> [s EXCEPT !.motionMode = "Rapid"]
      [] gCodeIs(value, 1) -> [s EXCEPT !.motionMode = "Linear"]
      [] gCodeIs(value, 2) -> [s EXCEPT !.motionMode = "ClockwiseArc"]
      [] gCodeIs(value, 3) -> [s EXCEPT !.motionMode = "CounterClockwiseArc"]
      [] OTHER -> s

\* a Partial<Vec3> / Partial<Vec2> with nothing assigned
EmptyVec3 == [x |-> Undefined, y |-> Undefined, z |-> Undefined]
EmptyVec2 == [x |-> Undefined, y |-> Undefined]

\* an optional GRBL.DistanceMode argument that is left out
NoMode == "undefined"

RECURSIVE registerCommand(_, _)
RECURSIVE endMotion(_)

\* variant: the chain stops two steps short of the total distance
simulateLinearMotion_early(s, cl) ==
    LET p == [x |-> NAdd(s.pos.x, cl.stepVec.x),
              y |-> NAdd(s.pos.y, cl.stepVec.y),
              z |-> NAdd(s.pos.z, cl.stepVec.z)]
        s1 == [s EXCEPT !.pos = p]
        distanceTravelled == Norm3(NSub(p.x, cl.startVec.x),
                                   NSub(p.y, cl.startVec.y),
                                   NSub(p.z, cl.startVec.z))
    IN IF s1.motionSimulationEnabled
       THEN IF NLt(distanceTravelled,
                   NSub(cl.totalDistance, 2 * cl.stepDistance))
            THEN LET timeoutId == freshTimeoutId(s1)
                     s2 == [s1 EXCEPT !.timers =
                               @ \cup {[id |-> timeoutId, cl |-> cl]}]
                 IN setSimulationTimeoutId(s2, timeoutId, cl.isJog)
            ELSE endMotion(s1)
       ELSE s1

\* one call of #simulateLinearMotion; cl holds the arguments of the call
simulateLinearMotion(s, cl) ==
    LET p == [x |-> NAdd(s.pos.x, cl.stepVec.x),
              y |-> NAdd(s.pos.y, cl.stepVec.y),
              z |-> NAdd(s.pos.z, cl.stepVec.z)]
        s1 == [s EXCEPT !.pos = p]
        distanceTravelled == Norm3(NSub(p.x, cl.startVec.x),
                                   NSub(p.y, cl.startVec.y),
                                   NSub(p.z, cl.startVec.z))
    IN IF s1.motionSimulationEnabled
       THEN IF NLt(distanceTravelled, NSub(cl.totalDistance, cl.stepDistance))
            THEN LET timeoutId == freshTimeoutId(s1)
                     s2 == [s1 EXCEPT !.timers =
                               @ \cup {[id |-> timeoutId, cl |-> cl]}]
                 IN setSimulationTimeoutId(s2, timeoutId, cl.isJog)
            ELSE endMotion(s1)
       ELSE s1

\* variant: the axis values are taken as a target under either distance mode
beginLinearMotionSimulation_abs(s, motionVec, isJog, feedrateArg, distanceModeArg) ==
    LET fr == IF feedrateArg = Undefined THEN s.feedrate ELSE feedrateArg
        mv == [x |-> IF motionVec.x # Undefined
                     THEN NSub(motionVec.x, s.pos.x) ELSE 0,
               y |-> IF motionVec.y # Undefined
                     THEN NSub(motionVec.y, s.pos.y) ELSE 0,
               z |-> IF motionVec.z # Undefined
                     THEN NSub(motionVec.z, s.pos.z) ELSE 0]
        totalDistance == Norm3(mv.x, mv.y, mv.z)
        axisStep(c) == IF IsNaN(ToNumber(fr)) THEN NaN
                       ELSE Quot(c * fr * SIMULATION_UPDATE_INTERVAL_MS,
                                 totalDistance * 60000)
        stepVec == [x |-> axisStep(mv.x), y |-> axisStep(mv.y),
                    z |-> axisStep(mv.z)]
        stepDistance == Norm3(stepVec.x, stepVec.y, stepVec.z)
    IN IF NGt(totalDistance, 0)
       THEN simulateLinearMotion(s,
                [kind |-> "linear", startVec |-> s.pos, stepVec |-> stepVec,
                 stepDistance |-> stepDistance,
                 totalDistance |-> totalDistance, isJog |-> isJog])
       ELSE s

\* variant: a motion of length zero takes one step along X all the same
beginLinearMotionSimulation_step(s, motionVec, isJog, feedrateArg, distanceModeArg) ==
    LET fr == IF feedrateArg = Undefined THEN s.feedrate ELSE feedrateArg
        dm == IF distanceModeArg = NoMode THEN s.distanceMode
              ELSE distanceModeArg
        mv == IF dm = "Abs"
              THEN [x |-> IF motionVec.x # Undefined
                          THEN NSub(motionVec.x, s.pos.x) ELSE 0,
                    y |-> IF motionVec.y # Undefined
                          THEN NSub(motionVec.y, s.pos.y) ELSE 0,
                    z |-> IF motionVec.z # Undefined
                          THEN NSub(motionVec.z, s.pos.z) ELSE 0]
              ELSE [x |-> IF motionVec.x # Undefined THEN motionVec.x ELSE 0,
                    y |-> IF motionVec.y # Undefined THEN motionVec.y ELSE 0,
                    z |-> IF motionVec.z # Undefined THEN motionVec.z ELSE 0]
        totalDistance == Norm3(mv.x, mv.y, mv.z)
        axisStep(c) == IF IsNaN(ToNumber(fr)) THEN NaN
                       ELSE Quot(c * fr * SIMULATION_UPDATE_INTERVAL_MS,
                                 totalDistance * 60000)
        stepVec == IF totalDistance = 0
                   THEN [x |-> Quot(fr * SIMULATION_UPDATE_INTERVAL_MS, 60000),
                         y |-> 0, z |-> 0]
                   ELSE [x |-> axisStep(mv.x), y |-> axisStep(mv.y),
                         z |-> axisStep(mv.z)]
        stepDistance == Norm3(stepVec.x, stepVec.y, stepVec.z)
    IN IF NGt(totalDistance, 0) \/ totalDistance = 0
       THEN simulateLinearMotion(s,
                [kind |-> "linear", startVec |-> s.pos, stepVec |-> stepVec,
                 stepDistance |-> stepDistance,
                 totalDistance |-> totalDistance, isJog |-> isJog])
       ELSE s

beginLinearMotionSimulation(s, motionVec, isJog, feedrateArg, distanceModeArg) ==
    LET fr == IF feedrateArg = Undefined THEN s.feedrate ELSE feedrateArg
        dm == IF distanceModeArg = NoMode THEN s.distanceMode
              ELSE distanceModeArg
        mv == IF dm = "Abs"
              THEN [x |-> IF motionVec.x # Undefined
                          THEN NSub(motionVec.x, s.pos.x) ELSE 0,
                    y |-> IF motionVec.y # Undefined
                          THEN NSub(motionVec.y, s.pos.y) ELSE 0,
                    z |-> IF motionVec.z # Undefined
                          THEN NSub(motionVec.z, s.pos.z) ELSE 0]
              ELSE [x |-> IF motionVec.x # Undefined THEN motionVec.x ELSE 0,
                    y |-> IF motionVec.y # Undefined THEN motionVec.y ELSE 0,
                    z |-> IF motionVec.z # Undefined THEN motionVec.z ELSE 0]
        totalDistance == Norm3(mv.x, mv.y, mv.z)
        \* ((component / totalDistance) * (feedrate / 60000)) * interval
        axisStep(c) == IF IsNaN(ToNumber(fr)) THEN NaN
                       ELSE Quot(c * fr * SIMULATION_UPDATE_INTERVAL_MS,
                                 totalDistance * 60000)
        stepVec == [x |-> axisStep(mv.x), y |-> axisStep(mv.y),
                    z |-> axisStep(mv.z)]
        stepDistance == Norm3(stepVec.x, stepVec.y, stepVec.z)
    IN IF NGt(totalDistance, 0)
       THEN simulateLinearMotion(s,
                [kind |-> "linear", startVec |-> s.pos, stepVec |-> stepVec,
                 stepDistance |-> stepDistance,
                 totalDistance |-> totalDistance, isJog |-> isJog])
       ELSE s

\* this.pos.x, this.pos.y in thousandths
posXY(s) == [x |-> toMilli(ToNumber(s.pos.x)), y |-> toMilli(ToNumber(s.pos.y))]

\* one call of #simulateArcMotion; cl holds the arguments of the call. The
\* new x and y are computed in thousandths and stored in Position's
\* Scale-ths, rounded to the nearest
simulateArcMotion(s, cl) ==
    LET p == posXY(s)
        xOffset == NSub(p.x, cl.arcCenter.x)
        yOffset == NSub(p.y, cl.arcCenter.y)
        angle == NAdd(Atan2(yOffset, xOffset),
                      IF cl.isClockwise THEN NSub(0, cl.angleOfRotation)
                      ELSE cl.angleOfRotation)
        mag == Norm2(xOffset, yOffset)
        x == IF IsNum(angle) /\ IsNum(mag)
             THEN cl.arcCenter.x + Quot(Cos(angle) * mag, Milli) ELSE NaN
        y == IF IsNum(angle) /\ IsNum(mag)
             THEN cl.arcCenter.y + Quot(Sin(angle) * mag, Milli) ELSE NaN
        s1 == [s EXCEPT !.pos.x = fromMilli(x), !.pos.y = fromMilli(y)]
        distanceTravelled == NAdd(cl.distanceTravelled, cl.arcStepLength)
    IN IF s1.motionSimulationEnabled
       THEN IF IsNum(distanceTravelled)
               /\ IsNum(NSub(cl.totalDistance, cl.arcStepLength))
               /\ distanceTravelled <= cl.totalDistance - cl.arcStepLength
            THEN LET timeoutId == freshTimeoutId(s1)
                 IN [s1 EXCEPT
                       !.timers = @ \cup
                           {[id |-> timeoutId,
                             cl |-> [cl EXCEPT !.distanceTravelled =
                                                   distanceTravelled]]},
                       !.simulationTimeoutId = timeoutId]
            ELSE endMotion(s1)
       ELSE s1

\* targetPosVec in Scale-ths, arcCenter in thousandths
beginCenterArcMotionSimulation(s, targetPosVec, isClockwise, arcCenter) ==
    LET target == [x |-> toMilli(ToNumber(targetPosVec.x)),
                   y |-> toMilli(ToNumber(targetPosVec.y))]
        radius == Norm2(NSub(target.x, arcCenter.x),
                        NSub(target.y, arcCenter.y))
        circum == circumference(radius)
        arc == arcLength(posXY(s), target, arcCenter)
        totalDistance == IF isClockwise THEN arc ELSE NSub(circum, arc)
        \* SIMULATION_UPDATE_INTERVAL_MS * (this.feedrate / 60000)
        arcStepLength ==
            IF IsNum(s.feedrate)
            THEN Quot(SIMULATION_UPDATE_INTERVAL_MS * s.feedrate * Milli,
                      Scale * 60000)
            ELSE NaN
        \* (Math.PI * 2 * arcStepLength) / circum: a division by zero gives
        \* an infinity or NaN, and either way the sine and cosine are NaN
        angleOfRotation ==
            IF IsNum(arcStepLength) /\ IsNum(circum) /\ circum # 0
            THEN Quot(PI * 2 * arcStepLength, circum)
            ELSE NaN
    IN simulateArcMotion(s,
           [kind |-> "arc", totalDistance |-> totalDistance,
            distanceTravelled |-> 0, isClockwise |-> isClockwise,
            arcCenter |-> arcCenter, angleOfRotation |-> angleOfRotation,
            arcStepLength |-> arcStepLength, isJog |-> FALSE])

\* the gain under which the two square roots of the centre factor are taken
RootGain == 10000

\* variant: the centre is put at the far end of the chord's offset
beginRadiusArcMotionSimulation_far(s, targetPosVec, isClockwise, arcRadius) ==
    IF ~(NEq(targetPosVec.x, s.pos.x) /\ NEq(targetPosVec.y, s.pos.y))
    THEN LET targetVector == [x |-> NSub(targetPosVec.x, s.pos.x),
                              y |-> NSub(targetPosVec.y, s.pos.y)]
             chordSquared == NAdd(NMul(targetVector.x, targetVector.x),
                                  NMul(targetVector.y, targetVector.y))
             centerDispSquared ==
                 NSub(NMul(4, NMul(arcRadius, arcRadius)), chordSquared)
         IN IF IsNum(centerDispSquared) /\ centerDispSquared >= 0
            THEN LET f0 == 0 - Quot(BSqrt(centerDispSquared * RootGain) * Milli,
                                    BSqrt(chordSquared * RootGain))
                     f1 == IF ~isClockwise THEN 0 - f0 ELSE f0
                     factor == IF arcRadius < 0 THEN 0 - f1 ELSE f1
                     tx == toMilli(targetVector.x)
                     ty == toMilli(targetVector.y)
                     p == posXY(s)
                     centerX == p.x + (tx - Quot(ty * factor, Milli))
                     centerY == p.y + (ty + Quot(tx * factor, Milli))
                 IN beginCenterArcMotionSimulation(s, targetPosVec,
                        isClockwise, [x |-> centerX, y |-> centerY])
            ELSE s
    ELSE s

\* variant: a radius too short for the chord is taken as half the chord
beginRadiusArcMotionSimulation_clamp(s, targetPosVec, isClockwise, arcRadius) ==
    IF ~(NEq(targetPosVec.x, s.pos.x) /\ NEq(targetPosVec.y, s.pos.y))
    THEN LET targetVector == [x |-> NSub(targetPosVec.x, s.pos.x),
                              y |-> NSub(targetPosVec.y, s.pos.y)]
             chordSquared == NAdd(NMul(targetVector.x, targetVector.x),
                                  NMul(targetVector.y, targetVector.y))
             d == NSub(NMul(4, NMul(arcRadius, arcRadius)), chordSquared)
             centerDispSquared == IF IsNum(d) /\ d < 0 THEN 0 ELSE d
         IN IF IsNum(centerDispSquared) /\ centerDispSquared >= 0
            THEN LET f0 == 0 - Quot(BSqrt(centerDispSquared * RootGain) * Milli,
                                    BSqrt(chordSquared * RootGain))
                     f1 == IF ~isClockwise THEN 0 - f0 ELSE f0
                     factor == IF arcRadius < 0 THEN 0 - f1 ELSE f1
                     tx == toMilli(targetVector.x)
                     ty == toMilli(targetVector.y)
                     p == posXY(s)
                     centerX == p.x + Quot(tx - Quot(ty * factor, Milli), 2)
                     centerY == p.y + Quot(ty + Quot(tx * factor, Milli), 2)
                 IN beginCenterArcMotionSimulation(s, targetPosVec,
                        isClockwise, [x |-> centerX, y |-> centerY])
            ELSE s
    ELSE s

\* targetPosVec and arcRadius in Scale-ths; the centre is resolved in
\* thousandths
beginRadiusArcMotionSimulation(s, targetPosVec, isClockwise, arcRadius) ==
    IF ~(NEq(targetPosVec.x, s.pos.x) /\ NEq(targetPosVec.y, s.pos.y))
    THEN LET targetVector == [x |-> NSub(targetPosVec.x, s.pos.x),
                              y |-> NSub(targetPosVec.y, s.pos.y)]
             chordSquared == NAdd(NMul(targetVector.x, targetVector.x),
                                  NMul(targetVector.y, targetVector.y))
             centerDispSquared ==
                 NSub(NMul(4, NMul(arcRadius, arcRadius)), chordSquared)
         IN IF IsNum(centerDispSquared) /\ centerDispSquared >= 0
            THEN LET \* -Math.sqrt(centerDispSquared) / Math.sqrt(chord ** 2)
                     f0 == 0 - Quot(BSqrt(centerDispSquared * RootGain) * Milli,
                                    BSqrt(chordSquared * RootGain))
                     f1 == IF ~isClockwise THEN 0 - f0 ELSE f0
                     factor == IF arcRadius < 0 THEN 0 - f1 ELSE f1
                     tx == toMilli(targetVector.x)
                     ty == toMilli(targetVector.y)
                     p == posXY(s)
                     centerX == p.x + Quot(tx - Quot(ty * factor, Milli), 2)
                     centerY == p.y + Quot(ty + Quot(tx * factor, Milli), 2)
                 IN beginCenterArcMotionSimulation(s, targetPosVec,
                        isClockwise, [x |-> centerX, y |-> centerY])
            ELSE s
    ELSE s

\* positionVec, arcRadius and arcCenter hold the values of the X, Y, R, I
\* and J words in Scale-ths, Undefined where the word is absent
beginArcMotionSimulation(s, positionVec, isClockwise, arcRadius, arcCenter) ==
    IF positionVec.x # Undefined /\ positionVec.y # Undefined
    THEN LET target == IF s.distanceMode = "Inc"
                       THEN [x |-> NAdd(positionVec.x, s.pos.x),
                             y |-> NAdd(positionVec.y, s.pos.y)]
                       ELSE [x |-> positionVec.x, y |-> positionVec.y]
         IN IF arcRadius # Undefined
            THEN beginRadiusArcMotionSimulation(s, target, isClockwise,
                                                arcRadius)
            ELSE IF arcCenter.x # Undefined /\ arcCenter.y # Undefined
            THEN LET center == IF s.arcCenterDistanceMode = "Inc"
                               THEN [x |-> NAdd(arcCenter.x, s.pos.x),
                                     y |-> NAdd(arcCenter.y, s.pos.y)]
                               ELSE arcCenter
                 IN beginCenterArcMotionSimulation(s, target, isClockwise,
                        [x |-> toMilli(ToNumber(center.x)),
                         y |-> toMilli(ToNumber(center.y))])
            ELSE s
    ELSE s

registerMotion(s, motionVec, arcRadius, arcCenter) ==
    LET s1 == [s EXCEPT !.inMotion = TRUE]
    IN CASE s1.motionMode = "Rapid" -> s1
         [] s1.motionMode = "Linear" ->
              beginLinearMotionSimulation(s1, motionVec, FALSE,
                                          Undefined, NoMode)
         \* the two arc cases, which differ in isClockwise alone
         [] s1.motionMode \in {"ClockwiseArc", "CounterClockwiseArc"} ->
              beginArcMotionSimulation(s1, motionVec,
                  s1.motionMode = "ClockwiseArc", arcRadius, arcCenter)

\* the locals of #registerJogCommand after the first n words
RECURSIVE jogWords(_, _, _)
jogWords(s, words, n) ==
    IF n = 0
    THEN [distanceMode |-> s.distanceMode, unitMode |-> s.unitMode,
          feedrate |-> s.feedrate, motionVec |-> EmptyVec3]
    ELSE LET a == jogWords(s, words, n - 1)
             letter == words[n][1]
             value == words[n][2]
         IN CASE letter = "G" ->
                   IF gCodeIs(value, 20) THEN [a EXCEPT !.unitMode = "Inch"]
                   ELSE IF gCodeIs(value, 21)
                        THEN [a EXCEPT !.unitMode = "Milimeter"]
                   ELSE IF gCodeIs(value, 90)
                        THEN [a EXCEPT !.distanceMode = "Abs"]
                   ELSE IF gCodeIs(value, 91)
                        THEN [a EXCEPT !.distanceMode = "Inc"]
                   ELSE a
              [] letter = "X" -> [a EXCEPT !.motionVec.x = value]
              [] letter = "Y" -> [a EXCEPT !.motionVec.y = value]
              [] letter = "Z" -> [a EXCEPT !.motionVec.z = value]
              [] letter = "F" -> [a EXCEPT !.feedrate = value]
              [] OTHER -> a

\* variant: the jog's distance mode and feed rate are stored in the tracker
registerJogCommand_persist(s, command) ==
    LET commandWords == parseCommand(command.words)
        jog == jogWords(s, commandWords, Len(commandWords))
        s0 == [s EXCEPT !.distanceMode = jog.distanceMode,
                        !.feedrate = jog.feedrate]
    IN IF s0.motionSimulationEnabled
       THEN IF s0.inMotion
            THEN [s0 EXCEPT !.motionCommandQueue = Append(@, command)]
            ELSE beginLinearMotionSimulation([s0 EXCEPT !.inMotion = TRUE],
                     jog.motionVec, TRUE, jog.feedrate, jog.distanceMode)
       ELSE s0

registerJogCommand(s, command) ==
    LET commandWords == parseCommand(command.words)
        jog == jogWords(s, commandWords, Len(commandWords))
    IN IF s.motionSimulationEnabled
       THEN IF s.inMotion
            THEN [s EXCEPT !.motionCommandQueue = Append(@, command)]
            ELSE beginLinearMotionSimulation([s EXCEPT !.inMotion = TRUE],
                     jog.motionVec, TRUE, jog.feedrate, jog.distanceMode)
       ELSE s

registerSystemCommand(s, command) ==
    IF startsWithJogPrefix(command) THEN registerJogCommand(s, command) ELSE s

\* the tracker and the locals of registerCommand after the first n words
RECURSIVE standardWords(_, _, _)
standardWords(s, words, n) ==
    IF n = 0
    THEN [s |-> s, motionVec |-> EmptyVec3, isMotionCommand |-> FALSE,
          arcRadius |-> Undefined, arcCenter |-> EmptyVec2]
    ELSE LET a == standardWords(s, words, n - 1)
             letter == words[n][1]
             value == words[n][2]
         IN CASE letter = "G" -> [a EXCEPT !.s = registerGCode(a.s, value)]
              [] letter = "X" -> [a EXCEPT !.motionVec.x = value,
                                           !.isMotionCommand = TRUE]
              [] letter = "Y" -> [a EXCEPT !.motionVec.y = value,
                                           !.isMotionCommand = TRUE]
              [] letter = "Z" -> [a EXCEPT !.motionVec.z = value,
                                           !.isMotionCommand = TRUE]
              [] letter = "R" -> [a EXCEPT !.arcRadius = value]
              [] letter = "I" -> [a EXCEPT !.arcCenter.x = value]
              [] letter = "J" -> [a EXCEPT !.arcCenter.y = value]
              [] letter = "F" -> [a EXCEPT !.s.feedrate = value]
              [] OTHER -> a

\* variant: an axis word is dispatched whether or not simulation is enabled
registerCommand_always(s, command) ==
    IF startsWithDollar(command)
    THEN registerSystemCommand(pushBufferLine(s, command), command)
    ELSE IF isRealtimeCommand(command)
    THEN registerRealtimeCommand(s, command.first)
    ELSE LET commandWords == parseCommand(command.words)
             a == standardWords(pushBufferLine(s, command), commandWords,
                                Len(commandWords))
         IN IF a.isMotionCommand
            THEN IF a.s.inMotion
                 THEN [a.s EXCEPT !.motionCommandQueue = Append(@, command)]
                 ELSE [a.s EXCEPT !.inMotion = TRUE]
            ELSE a.s

registerCommand(s, command) ==
    IF startsWithDollar(command)
    THEN registerSystemCommand(pushBufferLine(s, command), command)
    ELSE IF isRealtimeCommand(command)
    THEN registerRealtimeCommand(s, command.first)
    ELSE LET commandWords == parseCommand(command.words)
             a == standardWords(pushBufferLine(s, command), commandWords,
                                Len(commandWords))
         IN IF a.isMotionCommand /\ a.s.motionSimulationEnabled
            THEN IF a.s.inMotion
                 THEN [a.s EXCEPT !.motionCommandQueue = Append(@, command)]
                 ELSE registerMotion(a.s, a.motionVec, a.arcRadius, a.arcCenter)
            ELSE a.s

\* variant: the end of a motion resets the run state to Idle
endMotion_idle(s) ==
    LET s1 == [s EXCEPT !.inMotion = FALSE, !.state = "Idle"]
        s2 == IF Len(s1.motionCommandQueue) > 0
              THEN registerCommand(
                       [s1 EXCEPT !.motionCommandQueue = Tail(@)],
                       Head(s1.motionCommandQueue))
              ELSE s1
    IN [s2 EXCEPT !.simulationTimeoutId = Undefined,
                  !.jogSimulationTimeoutId = Undefined]

\* variant: the newest queued command is re-dispatched
endMotion_newest(s) ==
    LET s1 == [s EXCEPT !.inMotion = FALSE]
        n == Len(s1.motionCommandQueue)
        s2 == IF n > 0
              THEN registerCommand(
                       [s1 EXCEPT !.motionCommandQueue = SubSeq(@, 1, n - 1)],
                       s1.motionCommandQueue[n])
              ELSE s1
    IN [s2 EXCEPT !.simulationTimeoutId = Undefined,
                  !.jogSimulationTimeoutId = Undefined]

endMotion(s) ==
    LET s1 == [s EXCEPT !.inMotion = FALSE]
        s2 == IF Len(s1.motionCommandQueue) > 0
              THEN registerCommand(
                       [s1 EXCEPT !.motionCommandQueue = Tail(@)],
                       Head(s1.motionCommandQueue))
              ELSE s1
    IN [s2 EXCEPT !.simulationTimeoutId = Undefined,
                  !.jogSimulationTimeoutId = Undefined]

\* the callback of a pending timeout: the call it was scheduled with
runTimeout(s, cl) ==
    IF cl.kind = "arc" THEN simulateArcMotion(s, cl)
    ELSE simulateLinearMotion(s, cl)

(* ----------------------------- inputs ---------------------------------- *)
Int1(n) == Lexeme(FALSE, n, FALSE, 0)
LF == RawWord("LF", NoNumber)

\* the realtime bytes "?" and 0x85
cmdStatusQuery == Command(STATUS_REPORT_QUERY_COMMAND, 1, "", <<RawWord("?", NoNumber)>>)
cmdCancelJog == Command(CANCEL_JOG_COMMAND, 1, "", <<RawWord("0x85", NoNumber)>>)
\* "\n": a one-byte line that is no realtime command
cmdNewline == Command(10, 1, "", <<LF>>)
\* "?\n": starts with a realtime byte but is two bytes long
cmdQueryLine == Command(STATUS_REPORT_QUERY_COMMAND, 2, "", <<RawWord("?", NoNumber)>>)
\* "G1 X1.5 F1200 (...)\n", padded by its comment to 64 bytes
cmdLinear == Command(71, 64, "",
    <<RawWord("G", Int1(1)), RawWord("X", Lexeme(FALSE, 1, TRUE, 500)),
      RawWord("F", Int1(1200)), LF>>)
\* "X0\n": an axis word alone
cmdHome == Command(88, 3, "", <<RawWord("X", Int1(0))>>)
\* "$J=G91 X1.5 F1200 (...)\n", padded by its comment to 63 bytes
cmdJog == Command(36, 63, JOG_COMMAND_PREFIX,
    <<RawWord("G", Int1(91)), RawWord("X", Lexeme(FALSE, 1, TRUE, 500)),
      RawWord("F", Int1(1200)), LF>>)
\* "$X\n": a system command that is no jog
cmdUnlock == Command(36, 3, "$", <<RawWord("X", NoNumber)>>)

\* the commands the caller sends in Spec
Commands == {cmdStatusQuery, cmdCancelJog, cmdLinear, cmdJog}
\* the commands the caller sends and asks about in SpecLedger
LedgerCommands == {cmdStatusQuery, cmdCancelJog, cmdNewline, cmdQueryLine,
                   cmdHome, cmdUnlock, cmdLinear, cmdJog}

Coord(neg, ip, fp) == Lexeme(neg, ip, TRUE, fp)
msgOk == Message(OK_MESSAGE, FALSE, "", <<>>)
msgError == Message(ERROR_MESSAGE, FALSE, "", <<>>)
\* "<Idle|MPos:0.500,-0.500,1.000|FS:0,0>"
msgStatus == Message("", TRUE, "Idle",
    <<<<Coord(FALSE, 0, 500), Coord(TRUE, 0, 500), Coord(FALSE, 1, 0)>>>>)
\* "[MSG:Caution: Unlocked]": neither an answer nor a status report
msgFeedback == Message("", FALSE, "Caution", <<>>)

\* the messages the controller sends in Spec
Messages == {msgOk, msgError, msgStatus}

(* ----------------------------- actions --------------------------------- *)
InBounds(c) == IsNaN(c) \/ (0 - MaxPos <= c /\ c <= MaxPos)
\* the part of the state space a run explores
Bounded(s) ==
    /\ Len(s.bufferLineCharCounts) <= MaxLedger
    /\ Len(s.motionCommandQueue) <= MaxQueue
    /\ Cardinality(s.timers) <= MaxTimers
    /\ InBounds(s.pos.x) /\ InBounds(s.pos.y) /\ InBounds(s.pos.z)

SetMS(s) == Bounded(s) /\ ms' = s

Op(op, arg, result) == [op |-> op, arg |-> arg, result |-> result]
NoArg == <<>>

IsAnswer(m) == m.prefix = OK_MESSAGE \/ m.prefix = ERROR_MESSAGE
\* lines the caller has sent and the controller has not answered yet
AfterSend(n, command) == IF isRealtimeCommand(command) THEN n ELSE n + 1
AfterMessage(n, m) == IF IsAnswer(m) /\ n > 0 THEN n - 1 ELSE n

Init ==
    /\ ms = constructor
    /\ commandQueue = <<>>
    /\ portWrites = <<>>
    /\ lastOp = Op("constructor", NoArg, FALSE)
    /\ sentUnacked = 0

\* the caller asks machineState.commandWillOverflowBuffer(command)
CommandWillOverflowBufferOf(cmds) ==
    \E command \in cmds :
        /\ lastOp' = Op("commandWillOverflowBuffer", command,
                        commandWillOverflowBuffer(ms, command))
        /\ UNCHANGED <<ms, transportVars, sentUnacked>>

\* the caller calls machineState.registerCommand(command)
RegisterCommandOf(cmds) ==
    \E command \in cmds :
        /\ SetMS(registerCommand(ms, command))
        /\ lastOp' = Op("registerCommand", command, FALSE)
        /\ sentUnacked' = AfterSend(sentUnacked, command)
        /\ UNCHANGED transportVars

\* the caller calls machineState.registerMessage(message)
RegisterMessageOf(msgs) ==
    \E message \in msgs :
        /\ SetMS(registerMessage(ms, message))
        /\ lastOp' = Op("registerMessage", message, FALSE)
        /\ sentUnacked' = AfterMessage(sentUnacked, message)
        /\ UNCHANGED transportVars

RegisterCommand == RegisterCommandOf(Commands)
RegisterMessage == RegisterMessageOf(Messages)

\* the simulate-motion checkbox changes
ToggleMotionSimulation ==
    /\ SetMS(toggleMotionSimulation(ms))
    /\ lastOp' = Op("toggleMotionSimulation", NoArg, FALSE)
    /\ UNCHANGED <<transportVars, sentUnacked>>

\* a pending timeout fires: the event loop runs its callback
Tick ==
    \E t \in ms.timers :
        /\ SetMS(runTimeout([ms EXCEPT !.timers = @ \ {t}], t.cl))
        /\ lastOp' = Op("tick", t.cl.isJog, FALSE)
        /\ UNCHANGED <<transportVars, sentUnacked>>

Next ==
    \/ RegisterCommand
    \/ RegisterMessage
    \/ ToggleMotionSimulation
    \/ Tick

\* the tracker driven through its public methods, simulation and all
Spec == Init /\ [][Next]_vars

LedgerQuery == CommandWillOverflowBufferOf(LedgerCommands)
LedgerCommand == RegisterCommandOf(LedgerCommands)
LedgerMessage == RegisterMessageOf({msgOk, msgError, msgStatus, msgFeedback})

NextLedger ==
    \/ LedgerQuery
    \/ LedgerCommand
    \/ LedgerMessage

\* the buffer tracker alone: motion simulation stays switched off
SpecLedger == Init /\ [][NextLedger]_vars

(* --------------------------- main.ts ----------------------------------- *)
\* writeCommand up to its await: the command is parked in commandQueue, or
\* handed to GRBL.writeCommand; byReader marks the call beginReading awaits
writeCommand(queue, writes, s, command, byReader) ==
    IF commandWillOverflowBuffer(s, command)
    THEN [commandQueue |-> Append(queue, command), portWrites |-> writes]
    ELSE [commandQueue |-> queue,
          portWrites |-> Append(writes, [command |-> command,
                                         byReader |-> byReader])]

\* the commands the user interface sends in SpecTransport
TransportCommands == {cmdCancelJog, cmdLinear, cmdJog}
\* the messages read from the port in SpecTransport
TransportMessages == {msgOk, msgError}

TransportBounded(tr) ==
    /\ Len(tr.commandQueue) <= MaxCommandQueue
    /\ Len(tr.portWrites) <= MaxPortWrites

SetTransport(tr) ==
    /\ TransportBounded(tr)
    /\ commandQueue' = tr.commandQueue
    /\ portWrites' = tr.portWrites

RemoveAt(seq, i) == SubSeq(seq, 1, i - 1) \o SubSeq(seq, i + 1, Len(seq))

\* sendTextCommand / jog / cancelJog / pollStatus call writeCommand
WriteCommand ==
    \E command \in TransportCommands :
        /\ SetTransport(writeCommand(commandQueue, portWrites, ms, command, FALSE))
        /\ lastOp' = Op("writeCommand", command, FALSE)
        /\ UNCHANGED <<ms, sentUnacked>>

\* GRBL.writeCommand resolves: writeCommand resumes with registerCommand
PortWriteDone ==
    \E i \in 1..Len(portWrites) :
        /\ SetMS(registerCommand(ms, portWrites[i].command))
        /\ portWrites' = RemoveAt(portWrites, i)
        /\ lastOp' = Op("registerCommand", portWrites[i].command, FALSE)
        /\ sentUnacked' = AfterSend(sentUnacked, portWrites[i].command)
        /\ UNCHANGED commandQueue

\* beginReading handles the next message, unless it awaits its writeCommand
BeginReading ==
    \E message \in TransportMessages :
        /\ \A i \in 1..Len(portWrites) : ~portWrites[i].byReader
        /\ LET s == registerMessage(ms, message)
           IN /\ SetMS(s)
              /\ IF message.prefix = OK_MESSAGE /\ Len(commandQueue) > 0
                 THEN SetTransport(writeCommand(Tail(commandQueue), portWrites,
                                                s, Head(commandQueue), TRUE))
                 ELSE UNCHANGED transportVars
        /\ lastOp' = Op("registerMessage", message, FALSE)
        /\ sentUnacked' = AfterMessage(sentUnacked, message)

NextTransport ==
    \/ WriteCommand
    \/ PortWriteDone
    \/ BeginReading
    \/ ToggleMotionSimulation
    \/ Tick

\* the tracker driven only through the transport of main.ts
SpecTransport == Init /\ [][NextTransport]_vars

\* the controller answers a transmitted line it has not answered yet, with
\* ok or error, and beginReading handles the answer
AnswerRead == sentUnacked > 0 /\ BeginReading

NextAnswers ==
    \/ WriteCommand
    \/ PortWriteDone
    \/ AnswerRead

\* the transport with a controller that answers every transmitted line
\* exactly once; a pending port write resolves and a due answer arrives
SpecAnswers ==
    /\ Init /\ [][NextAnswers]_vars
    /\ WF_vars(PortWriteDone) /\ WF_vars(AnswerRead)

(* ----------------------- modal words and jogs -------------------------- *)
\* "G<n>\n": a standard line holding one G word
GLine(n) == Command(71, IF n < 10 THEN 3 ELSE 4, "", <<RawWord("G", Int1(n))>>)
ModalLines == {GLine(n) : n \in {0, 1, 2, 3, 20, 21, 90, 91}}
\* "$J=G91 G20 X1.5 F2400\n"
cmdJogInch == Command(36, 22, JOG_COMMAND_PREFIX,
    <<RawWord("G", Int1(91)), RawWord("G", Int1(20)),
      RawWord("X", Lexeme(FALSE, 1, TRUE, 500)), RawWord("F", Int1(2400))>>)
\* "$J=G90 G21 X1.5 F1200\n"
cmdJogAbs == Command(36, 22, JOG_COMMAND_PREFIX,
    <<RawWord("G", Int1(90)), RawWord("G", Int1(21)),
      RawWord("X", Lexeme(FALSE, 1, TRUE, 500)), RawWord("F", Int1(1200))>>)
JogLines == {cmdJogInch, cmdJogAbs}

ModeCommand == RegisterCommandOf(ModalLines \cup JogLines \cup {cmdCancelJog})
ModeMessage == RegisterMessageOf({msgOk})

NextModes ==
    \/ ModeCommand
    \/ ModeMessage
    \/ ToggleMotionSimulation
    \/ Tick

\* the tracker fed single modal G words and jogs with mode overrides
SpecModes == Init /\ [][NextModes]_vars

(* --------------------------- run state --------------------------------- *)
\* "<Token|Bf:15,128>": a status report without a position triple whose
\* first capitalised word is the token
StatusReport(token) == Message("", TRUE, token, <<>>)
\* the tokens of Grbl's reports and "Tool", which is none of them
StatusTokens == {"Idle", "Run", "Hold", "Jog", "Home", "Alarm", "Check",
                 "Door", "Sleep", "Tool"}
StatusReports == {StatusReport(token) : token \in StatusTokens}

StatusCommand == RegisterCommandOf({cmdCancelJog, cmdLinear, cmdJog})
StatusMessage == RegisterMessageOf(StatusReports \cup {msgOk, msgError})

NextStatus ==
    \/ StatusCommand
    \/ StatusMessage
    \/ ToggleMotionSimulation
    \/ Tick

\* the tracker receiving status reports of every run state between
\* commands, answers, ticks and toggles
SpecStatus == Init /\ [][NextStatus]_vars

(* ------------------------- a linear move ------------------------------- *)
\* "G1 X10 Y0 Z0 F6000\n"
cmdLineTo10 == Command(71, 20, "",
    <<RawWord("G", Int1(1)), RawWord("X", Int1(10)), RawWord("Y", Int1(0)),
      RawWord("Z", Int1(0)), RawWord("F", Int1(6000))>>)
\* "G1 X0 Y0 Z0 F6000\n"
cmdLineTo0 == Command(71, 19, "",
    <<RawWord("G", Int1(1)), RawWord("X", Int1(0)), RawWord("Y", Int1(0)),
      RawWord("Z", Int1(0)), RawWord("F", Int1(6000))>>)
LinearCommands == {cmdLineTo10, cmdLineTo0}

\* the part of the state space a run of SpecLinear explores: targets are
\* absolute, so Position stays between them and needs no bound
LinearBounded(s) ==
    /\ Len(s.bufferLineCharCounts) <= MaxLedger
    /\ Len(s.motionCommandQueue) <= MaxQueue
    /\ Cardinality(s.timers) <= MaxTimers
LinearSetMS(s) == LinearBounded(s) /\ ms' = s

LinearCommand ==
    \E command \in LinearCommands :
        /\ LinearSetMS(registerCommand(ms, command))
        /\ lastOp' = Op("registerCommand", command, FALSE)
        /\ sentUnacked' = AfterSend(sentUnacked, command)
        /\ UNCHANGED transportVars

LinearMessage ==
    \E message \in {msgOk, msgError} :
        /\ LinearSetMS(registerMessage(ms, message))
        /\ lastOp' = Op("registerMessage", message, FALSE)
        /\ sentUnacked' = AfterMessage(sentUnacked, message)
        /\ UNCHANGED transportVars

\* the simulate-motion checkbox is ticked and left ticked
LinearEnable ==
    /\ ~ms.motionSimulationEnabled
    /\ LinearSetMS(toggleMotionSimulation(ms))
    /\ lastOp' = Op("toggleMotionSimulation", NoArg, FALSE)
    /\ UNCHANGED <<transportVars, sentUnacked>>

LinearTick ==
    \E t \in ms.timers :
        /\ LinearSetMS(runTimeout([ms EXCEPT !.timers = @ \ {t}], t.cl))
        /\ lastOp' = Op("tick", t.cl.isJog, FALSE)
        /\ UNCHANGED <<transportVars, sentUnacked>>

NextLinear ==
    \/ LinearCommand
    \/ LinearMessage
    \/ LinearEnable
    \/ LinearTick

\* absolute linear moves at F6000 between X0 and X10, simulated
SpecLinear == Init /\ [][NextLinear]_vars

(* ---------------------- a motion under reports ------------------------- *)
\* the caller sends a line only while no motion is in flight
ProgressCommand ==
    \E command \in LinearCommands :
        /\ ~ms.inMotion
        /\ LinearSetMS(registerCommand(ms, command))
        /\ lastOp' = Op("registerCommand", command, FALSE)
        /\ sentUnacked' = AfterSend(sentUnacked, command)
        /\ UNCHANGED transportVars

\* the controller answers and reports its position
ProgressMessage ==
    \E message \in {msgOk, msgStatus} :
        /\ LinearSetMS(registerMessage(ms, message))
        /\ lastOp' = Op("registerMessage", message, FALSE)
        /\ sentUnacked' = AfterMessage(sentUnacked, message)
        /\ UNCHANGED transportVars

NextProgress ==
    \/ ProgressCommand
    \/ ProgressMessage
    \/ LinearEnable
    \/ LinearTick

\* linear moves one at a time, answers and status reports arriving between
\* the ticks; a pending timeout always fires in the end
SpecProgress == Init /\ [][NextProgress]_vars /\ WF_vars(LinearTick)

(* ------------------------- every message ------------------------------- *)
\* "<Run|MPos:0.500,-0.500,1.000|FS:0,0>"
msgRunning == Message("", TRUE, "Run",
    <<<<Coord(FALSE, 0, 500), Coord(TRUE, 0, 500), Coord(FALSE, 1, 0)>>>>)
AllMessages == {msgOk, msgError, msgRunning, msgFeedback}

AnyCommand == RegisterCommandOf({cmdLinear, cmdJog})
AnyMessage == RegisterMessageOf(AllMessages)

NextMessages ==
    \/ AnyCommand
    \/ AnyMessage
    \/ ToggleMotionSimulation
    \/ Tick

\* answers, status reports and other messages arriving while motions are
\* simulated and queued
SpecMessages == Init /\ [][NextMessages]_vars

(* ------------------------- malformed words ----------------------------- *)
\* "G0 X1.5 Fx\n": the F word carries no number
cmdBadWord == Command(71, 11, "",
    <<RawWord("G", Int1(0)), RawWord("X", Lexeme(FALSE, 1, TRUE, 500)),
      RawWord("F", NoNumber)>>)
WordCommand == RegisterCommandOf({cmdBadWord, cmdLinear})
WordMessage == RegisterMessageOf({msgOk, msgError})

NextWords ==
    \/ WordCommand
    \/ WordMessage
    \/ ToggleMotionSimulation
    \/ Tick

\* well-formed and malformed standard lines
SpecWords == Init /\ [][NextWords]_vars

(* ----------------------------- arcAngle -------------------------------- *)
\* the points with whole coordinates, in thousandths
Points == {[x |-> a * Milli, y |-> b * Milli] :
               a \in (0 - MaxCoord)..MaxCoord, b \in (0 - MaxCoord)..MaxCoord}
Centers == {[x |-> 0, y |-> 0], [x |-> Milli, y |-> 0]}
AnglePoints(startPoint, endPoint, centerPoint) ==
    [startPoint |-> startPoint, endPoint |-> endPoint,
     centerPoint |-> centerPoint]

\* a start point, an end point and a centre distinct from both are chosen
InitAngle ==
    /\ ms = constructor
    /\ commandQueue = <<>>
    /\ portWrites = <<>>
    /\ sentUnacked = 0
    /\ \E centerPoint \in Centers :
         \E startPoint \in Points \ {centerPoint} :
           \E endPoint \in Points \ {centerPoint} :
             lastOp = Op("points",
                         AnglePoints(startPoint, endPoint, centerPoint), 0)

\* arcAngle is called on them
ArcAngleCall ==
    /\ lastOp.op = "points"
    /\ lastOp' = Op("arcAngle", lastOp.arg,
                    arcAngle(lastOp.arg.startPoint, lastOp.arg.endPoint,
                             lastOp.arg.centerPoint))
    /\ UNCHANGED <<ms, transportVars, sentUnacked>>

NextAngle == ArcAngleCall

\* arcAngle on a grid of points
SpecAngle == InitAngle /\ [][NextAngle]_vars

(* ------------------------------ arcs ---------------------------------- *)
\* "G2 X10 Y0 R5 F6000\n"
cmdArcTo10 == Command(71, 19, "",
    <<RawWord("G", Int1(2)), RawWord("X", Int1(10)), RawWord("Y", Int1(0)),
      RawWord("R", Int1(5)), RawWord("F", Int1(6000))>>)
\* "G3 X0 Y0 I-5 J0\n"
cmdArcTo0 == Command(71, 16, "",
    <<RawWord("G", Int1(3)), RawWord("X", Int1(0)), RawWord("Y", Int1(0)),
      RawWord("I", Lexeme(TRUE, 5, FALSE, 0)), RawWord("J", Int1(0))>>)
ArcCommands == {cmdArcTo10, cmdArcTo0}

ArcCommand ==
    \E command \in ArcCommands :
        /\ LinearSetMS(registerCommand(ms, command))
        /\ lastOp' = Op("registerCommand", command, FALSE)
        /\ sentUnacked' = AfterSend(sentUnacked, command)
        /\ UNCHANGED transportVars

NextArc ==
    \/ ArcCommand
    \/ LinearMessage
    \/ LinearEnable
    \/ LinearTick

\* arcs between X0 and X10 at F6000, simulated
SpecArc == Init /\ [][NextArc]_vars

\* "G2 X10 Y0 R2 F6000\n": no circle of radius 2 passes through (0, 0) and
\* (10, 0)
cmdArcShort == Command(71, 19, "",
    <<RawWord("G", Int1(2)), RawWord("X", Int1(10)), RawWord("Y", Int1(0)),
      RawWord("R", Int1(2)), RawWord("F", Int1(6000))>>)
\* "G2 X0 Y0 R5 F6000\n": at the origin the target is the start
cmdArcHere == Command(71, 18, "",
    <<RawWord("G", Int1(2)), RawWord("X", Int1(0)), RawWord("Y", Int1(0)),
      RawWord("R", Int1(5)), RawWord("F", Int1(6000))>>)
RadiusArcCommands == {cmdArcTo10, cmdArcShort, cmdArcHere}

RadiusArcCommand ==
    \E command \in RadiusArcCommands :
        /\ LinearSetMS(registerCommand(ms, command))
        /\ lastOp' = Op("registerCommand", command, FALSE)
        /\ sentUnacked' = AfterSend(sentUnacked, command)
        /\ UNCHANGED transportVars

NextRadiusArc ==
    \/ RadiusArcCommand
    \/ LinearMessage
    \/ LinearEnable
    \/ LinearTick

\* radius-form arcs, some of them with no solution, simulated
SpecRadiusArc == Init /\ [][NextRadiusArc]_vars

\* "G3 X1 Y-3 I5 J0 F6000\n": from the origin, counter-clockwise about (5, 0)
\* to a point 0.6435 rad further on
cmdArcCcw == Command(71, 22, "",
    <<RawWord("G", Int1(3)), RawWord("X", Int1(1)),
      RawWord("Y", Lexeme(TRUE, 3, FALSE, 0)), RawWord("I", Int1(5)),
      RawWord("J", Int1(0)), RawWord("F", Int1(6000))>>)
SweepCommands == {cmdArcTo10, cmdArcCcw}

SweepCommand ==
    \E command \in SweepCommands :
        /\ LinearSetMS(registerCommand(ms, command))
        /\ lastOp' = Op("registerCommand", command, FALSE)
        /\ sentUnacked' = AfterSend(sentUnacked, command)
        /\ UNCHANGED transportVars

NextSweep ==
    \/ SweepCommand
    \/ LinearEnable
    \/ LinearTick

\* a clockwise and a counter-clockwise arc, simulated, up to the point where
\* the controller answers the first of them
SpecSweep == Init /\ [][NextSweep]_vars

(* ============================ properties ============================== *)
RECURSIVE SumSeq(_)
SumSeq(seq) == IF seq = <<>> THEN 0 ELSE Head(seq) + SumSeq(Tail(seq))

\* the step just taken registered this kind of input
Registered(op) == lastOp.op = op
\* a single byte equal to 0x3F or 0x85
IsRecognizedRealtime(command) == command.len = 1 /\ command.first \in {63, 133}
\* the step taken is registerCommand of the cancel-jog byte
CancelJogStep ==
    /\ lastOp'.op = "registerCommand"
    /\ lastOp'.arg.len = 1 /\ lastOp'.arg.first = 133
\* the step taken is registerMessage of an ok or error message
AnswerStep ==
    /\ lastOp'.op = "registerMessage"
    /\ lastOp'.arg.prefix \in {"ok", "error"}

\* C1: commandWillOverflowBuffer(command) is true exactly when the command
\* is not a single byte 0x3F or 0x85 and running total + length >= 128; for
\* those two bytes it is false whatever the total.
C1_OverflowIff ==
    Registered("commandWillOverflowBuffer") =>
        (lastOp.result <=>
            (~IsRecognizedRealtime(lastOp.arg)
             /\ ms.numOfCharsInBuffer + lastOp.arg.len >= 128))

\* a one-byte line that is no realtime byte is refused at a total of 127
C1_Witness ==
    /\ Registered("commandWillOverflowBuffer")
    /\ lastOp.arg.len = 1 /\ ~IsRecognizedRealtime(lastOp.arg)
    /\ ms.numOfCharsInBuffer = 127
    /\ lastOp.result

\* C2: the running total equals the sum of the ledger's entries and is
\* never negative; an answer that finds the ledger empty leaves it empty
\* with the total at 0.
C2_TotalIsSum ==
    /\ ms.numOfCharsInBuffer = SumSeq(ms.bufferLineCharCounts)
    /\ ms.numOfCharsInBuffer >= 0

\* an answer has just removed one of two unequal entries
C2_Witness ==
    /\ Registered("registerMessage") /\ lastOp.arg.prefix = "ok"
    /\ Len(ms.bufferLineCharCounts) = 1
    /\ sentUnacked = 1
    /\ ms.numOfCharsInBuffer = 64

\* C3: the ledger holds one entry per line the caller registered and the
\* controller has not answered, so the total is 0 once all are answered.
C3_OnePushPerLine ==
    /\ Len(ms.bufferLineCharCounts) = sentUnacked
    /\ (sentUnacked = 0 => ms.numOfCharsInBuffer = 0)

\* C4: an answer that finds two or more entries removes the oldest one; the
\* later lines' lengths remain, in send order.
C4_AnswerPopsOldest ==
    [][(AnswerStep /\ Len(ms.bufferLineCharCounts) >= 2)
        => ms'.bufferLineCharCounts = Tail(ms.bufferLineCharCounts)]_vars

\* C5: with every send guarded by commandWillOverflowBuffer, the running
\* total stays strictly below the 128-character capacity.
C5_BelowCapacity == ms.numOfCharsInBuffer < 128

\* C6: registering a realtime byte (0x3F or 0x85) changes neither the
\* ledger nor its running total.
C6_RealtimeLeavesLedger ==
    [][(lastOp'.op = "registerCommand" /\ IsRecognizedRealtime(lastOp'.arg))
        => /\ ms'.bufferLineCharCounts = ms.bufferLineCharCounts
           /\ ms'.numOfCharsInBuffer = ms.numOfCharsInBuffer]_vars

\* cancel-jog has just aborted a jog while two lines were unanswered
C6_Witness ==
    /\ Registered("registerCommand") /\ lastOp.arg.first = 133
    /\ Len(ms.bufferLineCharCounts) = 2
    /\ ms.motionSimulationEnabled /\ ~ms.inMotion /\ ms.timers = {}
    /\ ms.pos.x = 1 /\ ms.feedrate = Undefined

\* the number a coordinate's text denotes, in thousandths
Thousandths(lex) ==
    IF lex.neg THEN 0 - (lex.ip * 1000 + lex.fp) ELSE lex.ip * 1000 + lex.fp
\* a status report carrying a position triple was registered last
StatusWithPosition ==
    /\ Registered("registerMessage")
    /\ lastOp.arg.prefix \notin {"ok", "error"}
    /\ lastOp.arg.report /\ Len(lastOp.arg.coords) > 0

\* C7: right after a status report carrying a position triple, Position
\* equals the reported x, y, z.
C7_StatusOverridesPosition ==
    StatusWithPosition =>
        /\ ms.pos.x * 1000 = Thousandths(lastOp.arg.coords[1][1]) * Scale
        /\ ms.pos.y * 1000 = Thousandths(lastOp.arg.coords[1][2]) * Scale
        /\ ms.pos.z * 1000 = Thousandths(lastOp.arg.coords[1][3]) * Scale

\* the report arrived while a motion was in flight with its tick pending
C7_Witness ==
    /\ StatusWithPosition
    /\ ms.inMotion /\ ms.timers # {}
    /\ \E t \in ms.timers : t.cl.startVec = [x |-> 0, y |-> 0, z |-> 0]

IsJogEntry(command) == command.prefix = "$J="
HasJogEntry(queue) == \E i \in 1..Len(queue) : IsJogEntry(queue[i])
HasOrdinaryEntry(queue) == \E i \in 1..Len(queue) : ~IsJogEntry(queue[i])
OrdinaryEntries(queue) == SelectSeq(queue, LAMBDA command : ~IsJogEntry(command))

JogTickPending(s) == \E t \in s.timers : t.cl.isJog
\* a jog is the one motion being simulated: its tick is the pending one
JogSimulated(s) ==
    /\ s.motionSimulationEnabled /\ s.inMotion
    /\ Cardinality(s.timers) = 1 /\ JogTickPending(s)
OrdinaryTicks(s) == {t \in s.timers : ~t.cl.isJog}

\* C9: cancel-jog registered while a jog's tick is pending clears the
\* in-flight flag and leaves no tick of the jog pending.
C9_CancelStopsJog ==
    [][(CancelJogStep /\ JogSimulated(ms))
        => (~ms'.inMotion /\ ~JogTickPending(ms'))]_vars

\* C10: cancel-jog registered while an ordinary motion is in flight leaves
\* the in-flight flag set and the ordinary motion's tick pending.
C10_CancelSparesOrdinary ==
    [][(CancelJogStep /\ ms.inMotion /\ OrdinaryTicks(ms) # {})
        => (ms'.inMotion /\ OrdinaryTicks(ms') = OrdinaryTicks(ms))]_vars

\* C11: in every reachable state at most one tick chain is pending, so at
\* most one simulated motion is mutating Position.
C11_OneTickChain == Cardinality(ms.timers) <= 1

\* the caller's motion command is handed to the simulator at once: the
\* simulation is enabled and no motion is in flight
IsMotionLine(command) ==
    /\ ~isRealtimeCommand(command)
    /\ (command.prefix = "" \/ IsJogEntry(command))
StartsAtOnce ==
    /\ lastOp'.op = "registerCommand" /\ IsMotionLine(lastOp'.arg)
    /\ ms.motionSimulationEnabled /\ ~ms.inMotion
    /\ ms'.pos # ms.pos

\* C12: a motion command never starts being simulated while a motion
\* command sent earlier is still waiting in the motion queue.
C12_DispatchInSendOrder ==
    [][StartsAtOnce => ms.motionCommandQueue = <<>>]_vars

\* C13: while simulation is enabled, an ordinary command waiting in the
\* motion queue always has a tick pending whose motion, on ending, drains
\* the queue; it is never left waiting with nothing to re-dispatch it.
C13_QueuedIsDrained ==
    (ms.motionSimulationEnabled /\ HasOrdinaryEntry(ms.motionCommandQueue))
        => ms.timers # {}

\* C14: once simulation is toggled off no tick changes Position any more.
C14_NoTickAfterToggleOff ==
    [][(lastOp'.op = "tick" /\ ~ms.motionSimulationEnabled)
        => ms'.pos = ms.pos]_vars

ModalState(s) ==
    <<s.distanceMode, s.unitMode, s.motionMode, s.arcCenterDistanceMode,
      s.feedrate>>

RepeatedModalLine ==
    /\ lastOp'.op = "registerCommand" /\ lastOp'.arg \in ModalLines
    /\ lastOp = lastOp'
    /\ ~ms.motionSimulationEnabled

\* C20: registering the same single modal G word a second time in a row
\* leaves the modal state exactly as the first registration left it.
C20_ModalIdempotent ==
    [][RepeatedModalLine => ModalState(ms') = ModalState(ms)]_vars

\* G90 has been registered twice in a row after G0 set the motion mode
C20_Witness ==
    /\ Registered("registerCommand") /\ lastOp.arg = GLine(90)
    /\ ms.bufferLineCharCounts = <<4, 4>>
    /\ ~ms.motionSimulationEnabled
    /\ ms.distanceMode = "Abs" /\ ms.motionMode = "Rapid"

\* the Run State each status token stands for
RunStateOf ==
    [token \in {"Idle", "Run", "Hold", "Jog", "Home", "Alarm", "Check",
                "Door", "Sleep"} |->
        CASE token = "Idle" -> "Idle"
          [] token = "Run" -> "Cycle"
          [] token = "Hold" -> "Hold"
          [] token = "Jog" -> "Jog"
          [] token = "Home" -> "Homing"
          [] token = "Alarm" -> "Alarm"
          [] token = "Check" -> "CheckMode"
          [] token = "Door" -> "SafetyDoor"
          [] token = "Sleep" -> "Sleep"]
\* the step registers a message that is a status report
StatusReportStep ==
    /\ lastOp'.op = "registerMessage"
    /\ lastOp'.arg.prefix \notin {"ok", "error"}
    /\ lastOp'.arg.report

\* C16: a status report with one of the nine known tokens sets Run State to
\* the state the token stands for; with any other token Run State stays.
C16_TokenSetsRunState ==
    [][StatusReportStep =>
        ms'.state = IF lastOp'.arg.token \in DOMAIN RunStateOf
                    THEN RunStateOf[lastOp'.arg.token]
                    ELSE ms.state]_vars

\* a Door report has just arrived while a motion was being simulated
C16_Witness ==
    /\ Registered("registerMessage") /\ lastOp.arg = StatusReport("Door")
    /\ ms.state = "SafetyDoor"
    /\ ms.inMotion /\ ms.timers # {}

\* an unknown token has just left Hold in place
C16_WitnessUnknown ==
    /\ Registered("registerMessage") /\ lastOp.arg = StatusReport("Tool")
    /\ ms.state = "Hold"

\* C17: Run State changes only in a step that registers a status report;
\* commands, answers, ticks, queue draining and toggles leave it unchanged.
C17_OnlyReportsWriteRunState ==
    [][ms'.state # ms.state => StatusReportStep]_vars

\* a tick has just ended a motion and started the queued one while the
\* tracker showed Alarm
C17_Witness ==
    /\ Registered("tick") /\ ms.state = "Alarm"
    /\ ms.inMotion /\ Len(ms.bufferLineCharCounts) = 2
    /\ ms.motionCommandQueue = <<>> /\ ms.pos.x = 3

Origin == [x |-> 0, y |-> 0, z |-> 0]
\* the motion being simulated is the move from the origin to X10 Y0 Z0 at
\* 2.5 units per tick, and no other command waits behind it
OriginMove(s) ==
    /\ s.motionCommandQueue = <<>>
    /\ \E t \in s.timers : /\ t.cl.startVec = Origin
                           /\ t.cl.totalDistance = 10 * Scale
                           /\ 2 * t.cl.stepDistance = 5 * Scale
\* within one tick-step (2.5 units) of (10, 0, 0)
NearTarget(pos) ==
    2 * Norm3(10 * Scale - pos.x, pos.y, pos.z) <= 5 * Scale

\* C18: in the move from the origin to X10 Y0 Z0 at F6000 every tick
\* increases X and leaves Y and Z alone, and the tick that ends the move
\* leaves Position within one tick-step of (10, 0, 0).
C18_LinearMoveReachesTarget ==
    [][/\ (lastOp'.op = "registerCommand" /\ OriginMove(ms') /\ ms.timers = {})
          => (ms'.pos.x > ms.pos.x /\ ms'.pos.y = 0 /\ ms'.pos.z = 0)
       /\ (lastOp'.op = "tick" /\ OriginMove(ms))
          => /\ ms'.pos.x > ms.pos.x
             /\ ms'.pos.y = ms.pos.y /\ ms'.pos.z = ms.pos.z
             /\ (ms'.timers = {} => (~ms'.inMotion /\ NearTarget(ms'.pos)))
      ]_vars

\* the last tick of that move has just fired
C18_Witness ==
    /\ Registered("tick") /\ ~ms.inMotion /\ ms.timers = {}
    /\ ms.pos = [x |-> 15, y |-> 0, z |-> 0]
    /\ ms.feedrate = 6000 * Scale /\ ms.distanceMode = "Abs"
    /\ ms.bufferLineCharCounts = <<20>>

\* the points (0, 0) and (10, 0) in thousandths
ArcStart == [x |-> 0, y |-> 0]
ArcTarget == [x |-> 10 * Milli, y |-> 0]
\* the line "G2 X10 Y0 R5 F6000" is dispatched at (0, 0) with nothing pending
RadiusArcStep ==
    /\ lastOp'.op = "registerCommand" /\ lastOp'.arg = cmdArcTo10
    /\ ms.motionSimulationEnabled /\ ~ms.inMotion /\ ms.timers = {}
    /\ ms.pos.x = 0 /\ ms.pos.y = 0

\* C19: the radius-form clockwise arc from (0, 0) to (10, 0) with radius 5
\* is simulated about a centre at distance 5 from both points, over a swept
\* angle of exactly pi (an arc length of 5 pi).
C19_RadiusArcHalfCircle ==
    [][RadiusArcStep =>
         /\ Cardinality(ms'.timers) = 1
         /\ \A t \in ms'.timers :
              /\ t.cl.kind = "arc" /\ t.cl.isClockwise
              /\ Norm2(t.cl.arcCenter.x - ArcStart.x,
                       t.cl.arcCenter.y - ArcStart.y) = 5 * Milli
              /\ Norm2(t.cl.arcCenter.x - ArcTarget.x,
                       t.cl.arcCenter.y - ArcTarget.y) = 5 * Milli
              /\ arcAngle(ArcStart, ArcTarget, t.cl.arcCenter) = PI
              /\ t.cl.totalDistance = 5 * PI
      ]_vars

\* that arc has just been dispatched and its first step taken
C19_Witness ==
    /\ Registered("registerCommand") /\ lastOp.arg = cmdArcTo10
    /\ ms.inMotion /\ ms.motionMode = "ClockwiseArc"
    /\ \E t \in ms.timers :
         /\ t.cl.kind = "arc" /\ t.cl.arcCenter = [x |-> 5 * Milli, y |-> 0]
         /\ t.cl.distanceTravelled = t.cl.arcStepLength
         /\ t.cl.totalDistance = 5 * PI
    /\ ms.pos.y > 0 /\ ms.bufferLineCharCounts = <<19>>

\* the standard line "G<n>" is registered
ModalLineStep(n) == lastOp'.op = "registerCommand" /\ lastOp'.arg = GLine(n)

\* C21: a standard line with G90 sets the distance mode to Abs, with G91 to
\* Inc, with G20 the unit mode to Inch and with G21 to Milimeter.
C21_ModalWordsSetModes ==
    [][/\ ModalLineStep(90) => ms'.distanceMode = "Abs"
       /\ ModalLineStep(91) => ms'.distanceMode = "Inc"
       /\ ModalLineStep(20) => ms'.unitMode = "Inch"
       /\ ModalLineStep(21) => ms'.unitMode = "Milimeter"
      ]_vars

\* the standard lines "G0", "G1", "G2", "G3"
MotionModeLines == {GLine(n) : n \in 0..3}

WordLetters == {"G", "X", "Y", "Z", "R", "I", "J", "F"}
\* one of the line's words has such a letter and no number after it
TokenizerFails(command) ==
    LET words == parseCommand(command.words)
    IN \E i \in 1..Len(words) : words[i][1] \in WordLetters /\ IsNaN(words[i][2])
BadLineStep ==
    /\ lastOp'.op = "registerCommand" /\ lastOp'.arg.prefix = ""
    /\ ~isRealtimeCommand(lastOp'.arg) /\ TokenizerFails(lastOp'.arg)

\* C23: a standard line on which the tokenizer fails changes neither the
\* modal state nor the feed rate, Position, the in-flight flag or the motion
\* queue.
C23_BadLineHasNoEffect ==
    [][BadLineStep =>
         /\ ModalState(ms') = ModalState(ms)
         /\ ms'.pos = ms.pos
         /\ ms'.inMotion = ms.inMotion
         /\ ms'.motionCommandQueue = ms.motionCommandQueue
      ]_vars

\* the X, Y and R words of a line, in Scale-ths
WordOf(command, letter) ==
    LET words == parseCommand(command.words)
        at == {i \in 1..Len(words) : words[i][1] = letter}
    IN words[CHOOSE i \in at : \A j \in at : j <= i][2]
\* the target of a radius-form arc line registered in state s
RadiusArcTarget(s, command) ==
    IF s.distanceMode = "Inc"
    THEN [x |-> WordOf(command, "X") + s.pos.x, y |-> WordOf(command, "Y") + s.pos.y]
    ELSE [x |-> WordOf(command, "X"), y |-> WordOf(command, "Y")]
\* the start and the target coincide, or 4 * r^2 - |chord|^2 < 0
NoCircle(s, command) ==
    LET target == RadiusArcTarget(s, command)
        r == WordOf(command, "R")
        cx == target.x - s.pos.x
        cy == target.y - s.pos.y
    IN (cx = 0 /\ cy = 0) \/ 4 * r * r - cx * cx - cy * cy < 0
\* such a line is registered while no motion is in flight
NoCircleStep ==
    /\ lastOp'.op = "registerCommand" /\ lastOp'.arg \in RadiusArcCommands
    /\ ms.motionSimulationEnabled /\ ~ms.inMotion
    /\ NoCircle(ms, lastOp'.arg)

\* C24: a radius-form arc line whose start and target coincide, or whose
\* radius is too short for the chord, moves nothing and schedules no tick.
C24_NoCircleNoArc ==
    [][NoCircleStep => (ms'.pos = ms.pos /\ ms'.timers = ms.timers)]_vars

\* "G2 X10 Y0 R2 F6000" has been dispatched at the origin
C24_Witness ==
    /\ Registered("registerCommand") /\ lastOp.arg = cmdArcShort
    /\ ms.motionSimulationEnabled /\ ms.inMotion
    /\ ms.motionCommandQueue = <<>> /\ ms.timers = {}
    /\ ms.pos = Origin /\ ms.motionMode = "ClockwiseArc"
\* "G2 X0 Y0 R5 F6000" has been dispatched at the origin
C24_WitnessCoincide ==
    /\ Registered("registerCommand") /\ lastOp.arg = cmdArcHere
    /\ ms.motionSimulationEnabled /\ ms.inMotion
    /\ ms.motionCommandQueue = <<>> /\ ms.timers = {}
    /\ ms.pos = Origin

\* the call of #simulateLinearMotion with the arguments cl in state s is the
\* last of its motion: the distance left does not exceed one step
IsFinalStep(s, cl) ==
    LET distanceTravelled ==
            Norm3(NSub(NAdd(s.pos.x, cl.stepVec.x), cl.startVec.x),
                  NSub(NAdd(s.pos.y, cl.stepVec.y), cl.startVec.y),
                  NSub(NAdd(s.pos.z, cl.stepVec.z), cl.startVec.z))
    IN ~NLt(distanceTravelled, NSub(cl.totalDistance, cl.stepDistance))
\* the only pending tick fires with simulation enabled and ends its motion
FinalTick ==
    /\ lastOp'.op = "tick" /\ ms.motionSimulationEnabled
    /\ \E t \in ms.timers : ms.timers = {t} /\ IsFinalStep(ms, t.cl)

\* C25 as stated: the final tick of a motion clears the in-flight flag when
\* nothing is queued, and otherwise removes exactly the oldest queued command
\* and passes it to registerCommand, the rest of the queue keeping its order.
C25_FinalTickDrainsOne ==
    [][FinalTick =>
         IF ms.motionCommandQueue = <<>>
         THEN ~ms'.inMotion /\ ms'.motionCommandQueue = <<>>
         ELSE /\ ms'.motionCommandQueue = Tail(ms.motionCommandQueue)
              /\ ms'.bufferLineCharCounts =
                     Append(ms.bufferLineCharCounts,
                            Head(ms.motionCommandQueue).len)
      ]_vars

\* Position after the final step of the only pending motion
AfterFinalStep(s) ==
    LET t == CHOOSE t \in s.timers : TRUE
    IN [x |-> NAdd(s.pos.x, t.cl.stepVec.x), y |-> NAdd(s.pos.y, t.cl.stepVec.y),
        z |-> NAdd(s.pos.z, t.cl.stepVec.z)]
\* for a queued line that carries the words X and F only (a G91 jog, or a
\* standard line under the absolute distance mode): the length of its
\* motion from p and the length of one step
LineDistance(p, command) ==
    IF IsJogEntry(command) THEN Abs(WordOf(command, "X"))
    ELSE Abs(WordOf(command, "X") - p.x)
LineStep(command) ==
    Quot(WordOf(command, "F") * SIMULATION_UPDATE_INTERVAL_MS, 60000)
\* dispatched at p, the line's motion ends within its first step
EndsAtOnce(p, command) ==
    /\ LineDistance(p, command) > 0
    /\ ~(LineStep(command) < LineDistance(p, command) - LineStep(command))
\* the lengths of the first k entries of a queue
RECURSIVE LensOf(_, _)
LensOf(queue, k) ==
    IF k = 0 THEN <<>> ELSE Append(LensOf(queue, k - 1), queue[k].len)

\* C25, amended: the final tick of a motion clears the in-flight flag when
\* nothing is queued; otherwise it removes commands from the front of the
\* queue only, passing each to registerCommand in order, and it removes
\* exactly the oldest one unless that command's own motion ends within the
\* step that dispatches it.
C25_FinalTickDrainsFront ==
    [][FinalTick =>
         IF ms.motionCommandQueue = <<>>
         THEN ~ms'.inMotion /\ ms'.motionCommandQueue = <<>>
         ELSE /\ \E k \in 1..Len(ms.motionCommandQueue) :
                   /\ ms'.motionCommandQueue =
                          SubSeq(ms.motionCommandQueue, k + 1,
                                 Len(ms.motionCommandQueue))
                   /\ ms'.bufferLineCharCounts =
                          ms.bufferLineCharCounts
                              \o LensOf(ms.motionCommandQueue, k)
              /\ ~EndsAtOnce(AfterFinalStep(ms), Head(ms.motionCommandQueue))
                 => ms'.motionCommandQueue = Tail(ms.motionCommandQueue)
      ]_vars

\* a jog's final tick has re-dispatched two queued lines: the first ended
\* within its dispatch and the second followed it
C25_Witness ==
    /\ Registered("tick") /\ ms.motionSimulationEnabled
    /\ ms.bufferLineCharCounts = <<64, 64>>
    /\ ms.motionCommandQueue = <<>> /\ ms.timers = {}
    /\ ms.inMotion /\ ms.pos.x = 3
\* a final tick has re-dispatched the older of two queued lines
C25_WitnessOne ==
    /\ Registered("tick") /\ ms.motionSimulationEnabled
    /\ Len(ms.motionCommandQueue) = 1 /\ ms.timers # {} /\ ms.inMotion
    /\ ms.bufferLineCharCounts # <<>>

HasAxisWord(command) ==
    LET words == parseCommand(command.words)
    IN \E i \in 1..Len(words) : words[i][1] \in {"X", "Y", "Z"}
\* a standard line with an axis word is registered
AxisLineStep ==
    /\ lastOp'.op = "registerCommand" /\ lastOp'.arg.prefix = ""
    /\ ~isRealtimeCommand(lastOp'.arg) /\ HasAxisWord(lastOp'.arg)
\* q is what is left of p after entries were taken from its front
IsSuffixOf(q, p) ==
    Len(q) <= Len(p) /\ q = SubSeq(p, Len(p) - Len(q) + 1, Len(p))

\* C26: a standard line with an axis word is appended to the motion queue,
\* Position untouched, when simulation is enabled and a motion is in flight;
\* is dispatched and not queued when simulation is enabled and no motion is
\* in flight; and leaves Position, the in-flight flag and the (empty) queue
\* alone when simulation is disabled.
C26_AxisLineQueuedOrDispatched ==
    [][AxisLineStep =>
         IF ms.motionSimulationEnabled
         THEN IF ms.inMotion
              THEN /\ ms'.motionCommandQueue =
                          Append(ms.motionCommandQueue, lastOp'.arg)
                   /\ ms'.pos = ms.pos
              ELSE /\ IsSuffixOf(ms'.motionCommandQueue, ms.motionCommandQueue)
                   /\ ms'.inMotion \/ ms'.pos # ms.pos
         ELSE /\ ms'.pos = ms.pos /\ ms'.inMotion = ms.inMotion
              /\ ms.motionCommandQueue = <<>> /\ ms'.motionCommandQueue = <<>>
      ]_vars

\* "G1 X1.5 F1200" has been queued behind a motion in flight
C26_Witness ==
    /\ Registered("registerCommand") /\ lastOp.arg = cmdLinear
    /\ ms.motionSimulationEnabled /\ ms.inMotion /\ ms.timers # {}
    /\ ms.motionCommandQueue = <<cmdLinear>>
    /\ ms.bufferLineCharCounts = <<63, 64>>
\* "G1 X1.5 F1200" has been dispatched at the origin
C26_WitnessDispatched ==
    /\ Registered("registerCommand") /\ lastOp.arg = cmdLinear
    /\ ms.motionSimulationEnabled /\ ms.inMotion /\ ms.timers # {}
    /\ ms.motionCommandQueue = <<>> /\ ms.pos.x = 1
    /\ ms.bufferLineCharCounts = <<64>>
\* "G1 X1.5 F1200" has been registered with simulation disabled
C26_WitnessDisabled ==
    /\ Registered("registerCommand") /\ lastOp.arg = cmdLinear
    /\ ~ms.motionSimulationEnabled /\ ~ms.inMotion
    /\ ms.pos = Origin /\ ms.feedrate = 1200 * Scale

\* the value of an axis word of a line, Undefined when the line has none
AxisOf(command, letter) ==
    IF \E i \in 1..Len(command.words) : command.words[i].letter = letter
    THEN WordOf(command, letter) ELSE Undefined
\* under the absolute distance mode the line's target is where Position is
ZeroDelta(s, command) ==
    /\ s.distanceMode = "Abs"
    /\ AxisOf(command, "X") \in {Undefined, s.pos.x}
    /\ AxisOf(command, "Y") \in {Undefined, s.pos.y}
    /\ AxisOf(command, "Z") \in {Undefined, s.pos.z}
\* a linear move to the current position is dispatched
ZeroDeltaStep ==
    /\ lastOp'.op = "registerCommand" /\ lastOp'.arg \in LinearCommands
    /\ ms.motionSimulationEnabled /\ ~ms.inMotion
    /\ ZeroDelta(ms, lastOp'.arg)

\* C27: a linear move whose target is the current position creates no tick
\* and leaves Position unchanged.
C27_ZeroDeltaNoMotion ==
    [][ZeroDeltaStep => (ms'.pos = ms.pos /\ ms'.timers = ms.timers)]_vars

\* "G1 X0 Y0 Z0 F6000" has been dispatched at the origin
C27_Witness ==
    /\ Registered("registerCommand") /\ lastOp.arg = cmdLineTo0
    /\ ms.motionSimulationEnabled /\ ms.inMotion
    /\ ms.motionCommandQueue = <<>> /\ ms.timers = {}
    /\ ms.pos = Origin /\ ms.feedrate = 6000 * Scale

\* the jog line carries G91
IsIncrementalJog(command) ==
    \E i \in 1..Len(command.words) :
        command.words[i].letter = "G" /\ tokenizeWord(command.words[i])[2] = 91 * Scale
\* the X delta stated for a jog of X = a registered at Position p
JogDelta(s, command) ==
    IF IsIncrementalJog(command) THEN WordOf(command, "X")
    ELSE WordOf(command, "X") - s.pos.x
Sign(a) == IF a > 0 THEN 1 ELSE IF a < 0 THEN 0 - 1 ELSE 0
\* a jog line is dispatched
JogDispatchStep ==
    /\ lastOp'.op = "registerCommand" /\ lastOp'.arg \in JogLines
    /\ ms.motionSimulationEnabled /\ ~ms.inMotion

\* C28: a jog of X = a dispatched at Position p moves along X alone, by a
\* when it carries G91 and by a - p.x when it carries G90: the first step
\* goes that way, and the motion scheduled starts at p and is |delta| long.
C28_JogDelta ==
    [][JogDispatchStep =>
         LET delta == JogDelta(ms, lastOp'.arg)
         IN /\ ms'.pos.y = ms.pos.y /\ ms'.pos.z = ms.pos.z
            /\ Sign(ms'.pos.x - ms.pos.x) = Sign(delta)
            /\ Abs(ms'.pos.x - ms.pos.x) <= Abs(delta)
            /\ \A t \in ms'.timers \ ms.timers :
                 /\ t.cl.startVec = ms.pos
                 /\ t.cl.totalDistance = Abs(delta)
                 /\ t.cl.stepVec.y = 0 /\ t.cl.stepVec.z = 0
                 /\ Sign(t.cl.stepVec.x) = Sign(delta)
      ]_vars

\* "$J=G91 G20 X1.5 F2400" has been dispatched at X0.5 and has moved to X1.5
C28_Witness ==
    /\ Registered("registerCommand") /\ lastOp.arg = cmdJogInch
    /\ ms.motionSimulationEnabled /\ ms.pos = [x |-> 3, y |-> 0, z |-> 0]
    /\ ms.distanceMode = "Abs"
\* "$J=G90 G21 X1.5 F1200" has been dispatched at X0.5 and has moved to X1.0,
\* one step short of its target
C28_WitnessAbs ==
    /\ Registered("registerCommand") /\ lastOp.arg = cmdJogAbs
    /\ ms.motionSimulationEnabled /\ ~ms.inMotion /\ ms.timers = {}
    /\ ms.pos = [x |-> 2, y |-> 0, z |-> 0]

\* the angle, in (0, 2 pi], swept from start to target about center in the
\* given direction, and the length of that arc (all in thousandths)
TrueSweep(start, target, center, isClockwise) ==
    LET startAngle == Atan2(start.y - center.y, start.x - center.x)
        targetAngle == Atan2(target.y - center.y, target.x - center.x)
        turn == IF isClockwise THEN (startAngle - targetAngle) % TwoPI
                ELSE (targetAngle - startAngle) % TwoPI
    IN IF turn = 0 THEN TwoPI ELSE turn
TrueArcLength(start, target, center, isClockwise) ==
    (TrueSweep(start, target, center, isClockwise)
        * Norm2(target.x - center.x, target.y - center.y)) \div Milli
\* an arc line is dispatched at the origin with nothing pending
ArcDispatchStep ==
    /\ lastOp'.op = "registerCommand" /\ lastOp'.arg \in SweepCommands
    /\ ms.motionSimulationEnabled /\ ~ms.inMotion /\ ms.timers = {}
    /\ ms.pos.x = 0 /\ ms.pos.y = 0 /\ ms.distanceMode = "Abs"

\* C29: the length an arc simulation sweeps before it completes is, within
\* one per cent, the length of the arc from the start to the commanded
\* target in the commanded direction.
C29_SweepIsArcLength ==
    [][ArcDispatchStep =>
         \A t \in ms'.timers :
             LET target == [x |-> toMilli(WordOf(lastOp'.arg, "X")),
                            y |-> toMilli(WordOf(lastOp'.arg, "Y"))]
                 true == TrueArcLength(ArcStart, target, t.cl.arcCenter,
                                       t.cl.isClockwise)
             IN 100 * Abs(t.cl.totalDistance - true) <= true
      ]_vars

C30_WitnessCoincide ==
    /\ lastOp.op = "arcAngle"
    /\ lastOp.arg.startPoint = lastOp.arg.endPoint
    /\ lastOp.result = TwoPI


\* C31: whenever the in-flight flag is set a simulation tick is pending
\* that will clear it; no command leaves the flag set with no tick
\* scheduled.
C31_InFlightHasTick == ms.inMotion => ms.timers # {}


\* C32: in every reachable state a non-empty motion queue means that the
\* simulation is enabled and a motion is in flight, its tick pending; no
\* command stays queued while the tracker is idle.
C32_QueuedMeansInFlight ==
    ms.motionCommandQueue # <<>>
        => (ms.motionSimulationEnabled /\ ms.inMotion /\ ms.timers # {})


\* C33: a motion started while simulation is enabled, its tick pending,
\* eventually completes: the in-flight flag becomes false, however status
\* reports and answers are interleaved with the ticks.
C33_MotionCompletes ==
    (ms.motionSimulationEnabled /\ ms.inMotion /\ ms.timers # {})
        ~> ~ms.inMotion


\* a standard line is sent
StandardLineStep ==
    /\ lastOp'.op = "registerCommand" /\ lastOp'.arg.prefix = ""
    /\ ~isRealtimeCommand(lastOp'.arg)
HasWord(command, letter) ==
    \E i \in 1..Len(command.words) : command.words[i].letter = letter
\* the line's last G word is one of G0..G3
HasMotionWord(command) ==
    HasWord(command, "G") /\ \E n \in 0..3 : gCodeIs(WordOf(command, "G"), n)
MotionModeOf(value) ==
    CASE gCodeIs(value, 0) -> "Rapid"
      [] gCodeIs(value, 1) -> "Linear"
      [] gCodeIs(value, 2) -> "ClockwiseArc"
      [] gCodeIs(value, 3) -> "CounterClockwiseArc"

\* C34: the feed rate is the F value of the standard line sent last among
\* those with an F word, and the motion mode that of the G0..G3 word sent
\* last: sending such a line sets them, and nothing else (a tick that
\* re-dispatches a queued line included) changes them.
C34_WordsApplyInSendOrder ==
    [][/\ (StandardLineStep /\ HasWord(lastOp'.arg, "F"))
            => ms'.feedrate = WordOf(lastOp'.arg, "F")
       /\ (StandardLineStep /\ HasMotionWord(lastOp'.arg))
            => ms'.motionMode = MotionModeOf(WordOf(lastOp'.arg, "G"))
       /\ ~(StandardLineStep /\ HasWord(lastOp'.arg, "F"))
            => ms'.feedrate = ms.feedrate
       /\ ~(StandardLineStep /\ HasMotionWord(lastOp'.arg))
            => ms'.motionMode = ms.motionMode
      ]_vars


\* C35: in every reachable state the components of Position are numbers,
\* none of them undefined or NaN.
C35_PositionIsNumber ==
    IsNum(ms.pos.x) /\ IsNum(ms.pos.y) /\ IsNum(ms.pos.z)


C36_WitnessAnswer ==
    /\ Registered("registerMessage") /\ lastOp.arg = msgOk
    /\ ms.inMotion /\ ms.timers # {} /\ ms.motionCommandQueue # <<>>
    /\ Len(ms.bufferLineCharCounts) = 1 /\ ms.state = "Cycle"
\* a message that is neither has arrived in such a state
C36_WitnessOther ==
    /\ Registered("registerMessage") /\ lastOp.arg = msgFeedback
    /\ ms.inMotion /\ ms.timers # {} /\ ms.motionCommandQueue # <<>>
    /\ Len(ms.bufferLineCharCounts) = 2


\* a call of writeCommand has handed a line (no realtime byte) to the port
LineWritten ==
    /\ Len(portWrites') = Len(portWrites) + 1
    /\ ~isRealtimeCommand(portWrites'[Len(portWrites')].command)

\* C37: commands are transmitted in the order they were submitted: a line is
\* handed to the port only when no command submitted before it waits in
\* commandQueue, that is when commandQueue is empty or the line is the one
\* that waited longest.
C37_TransmitInSubmitOrder ==
    [][LineWritten =>
         \/ commandQueue = <<>>
         \/ /\ lastOp'.op = "registerMessage"
            /\ portWrites'[Len(portWrites')].command = Head(commandQueue)
            /\ commandQueue' = Tail(commandQueue)
      ]_vars


\* C38: a command parked in commandQueue is eventually transmitted and
\* registered, the controller answering every transmitted line exactly
\* once: commandQueue is empty again and no port write is outstanding.
C38_ParkedIsTransmitted ==
    (commandQueue # <<>>) ~> (commandQueue = <<>> /\ portWrites = <<>>)


\* C39: in every reachable state #jogSimulationTimeoutId is defined exactly
\* when a jog's tick is pending and #simulationTimeoutId exactly when an
\* ordinary motion's tick is pending.
C39_HandlesTrackTicks ==
    /\ (ms.jogSimulationTimeoutId # Undefined) <=> JogTickPending(ms)
    /\ (ms.simulationTimeoutId # Undefined) <=> (OrdinaryTicks(ms) # {})

====
